---- MODULE Spec2Model ----
(***************************************************************************)
(* Verification model of the three.js exporters of this repository:        *)
(*   - io_scene_three/mesh.py: export_mesh (vertex de-duplication, index   *)
(*     array, material groups, attribute arrays, bounding sphere);         *)
(*   - io_mesh_threejs_object.py: ExportThreejsObject.parse_mesh_faces;    *)
(*   - io_scene_three/encoder.py: Encoder.encode_float and                 *)
(*     Encoder.iterencode, the streaming JSON encoder.                     *)
(*                                                                         *)
(* Floating point values are modelled by integers.  None is modelled by    *)
(* the empty tuple << >>.  Text is modelled by sequences of one-character  *)
(* strings and of atomic tokens.                                           *)
(***************************************************************************)
EXTENDS Integers, Sequences, FiniteSets, TLC

(***************************************************************************)
(* Bounds of the model.                                                    *)
(***************************************************************************)
\* largest number of material slots of a mesh
MaxMaterials == 2
\* largest number of (triangulated) faces of a mesh
MaxFaces == 2
\* largest number of tessfaces handed to parse_mesh_faces
MaxTessFaces == 2
\* decimals of the floats handed to encode_float
FloatDigits == 5
\* largest float_precision handed to encode_float
MaxPrecision == 5
\* largest mantissa of the floats handed to encode_float
MaxMantissa == 25
\* largest number of items of the container built for one call of iterencode
MaxItems == 2
MaxChunks == 2
MaxObjects == 3
\* operator.py 89-90: the range of ExportOperator.float_precision
FLOAT_PRECISION_MIN == 0
FLOAT_PRECISION_MAX == 8
\* encoder.py 32: Encoder.float_precision
FLOAT_PRECISION_DEFAULT == 5

None == << >>

(***************************************************************************)
(* Generic helpers.                                                        *)
(***************************************************************************)
Min(a, b) == IF a <= b THEN a ELSE b

Max(a, b) == IF a >= b THEN a ELSE b

Range(s) == {s[i] : i \in 1..Len(s)}

RECURSIVE Flatten(_)
\* [a for b in seq for a in b]
Flatten(seq) == IF seq = << >> THEN << >> ELSE Head(seq) \o Flatten(Tail(seq))

RECURSIVE SeqsUpTo(_, _)
\* all sequences over S of length at most n
SeqsUpTo(S, n) ==
    IF n = 0 THEN {<< >>}
    ELSE LET shorter == SeqsUpTo(S, n - 1)
         IN shorter \cup {Append(s, x) : s \in {t \in shorter : Len(t) = n - 1}, x \in S}

\* the sequences of SeqsUpTo(S, n) without a repeated element
DistinctSeqsUpTo(S, n) ==
    {s \in SeqsUpTo(S, n) : \A i, j \in 1..Len(s) : s[i] = s[j] => i = j}

(***************************************************************************)
(* mesh.py: module constants.                                              *)
(***************************************************************************)
DEFAULT_UV == <<0, 0>>

COLOR_WHITE == <<1, 1, 1>>

UV_MAPS == {"map", "alphaMap", "normalMap", "emissiveMap", "bumpMap",
            "displacementMap", "roughnessMap", "metalnessMap"}

UV2_MAPS == {"lightMap", "aoMap"}

(***************************************************************************)
(* The host data export_mesh reads.                                        *)
(*                                                                         *)
(* A material slot holds None (isNone) or a material.  texs is the         *)
(* exporter._tex_map entry of the material: None (isNone), or a mapping    *)
(* texture-name -> None | (texture, uv_layer); a texture entry is present  *)
(* or None, and carries the name of its uv layer.                          *)
(***************************************************************************)
Tex(p, layer) == [present |-> p, uv_layer |-> layer]

NoTex == Tex(FALSE, "")

Texs(n, m, ao) == [isNone |-> n, map |-> m, aoMap |-> ao]

\* the names of the texture mapping, in iteration order
TexNames == <<"map", "aoMap">>

TexOf(texs, name) == IF name = "map" THEN texs.map ELSE texs.aoMap

Material(n, nm, t, vcol) ==
    [isNone |-> n, name |-> nm, texs |-> t, use_vertex_color_paint |-> vcol]

NoMaterial == Material(TRUE, "", Texs(TRUE, NoTex, NoTex), FALSE)

MatPlain == Material(FALSE, "Plain", Texs(FALSE, NoTex, NoTex), FALSE)

MatDiffuse == Material(FALSE, "Diffuse", Texs(FALSE, Tex(TRUE, "UVMap"), NoTex), FALSE)

MatBaked == Material(FALSE, "Baked", Texs(FALSE, NoTex, Tex(TRUE, "LightMap")), TRUE)

\* the values a material slot can hold
MaterialSlots == {NoMaterial, MatPlain, MatDiffuse, MatBaked}

\* exporter._tex_map.get(mat)
TexMapGet(mat) == IF mat.isNone THEN Texs(TRUE, NoTex, NoTex) ELSE mat.texs

\* the custom-data layers of a mesh: uv layer names, active uv index,
\* presence of an active vertex colour layer and of a deform layer
MeshBare == [uv_textures |-> << >>, active_index |-> 0 - 1,
             color |-> FALSE, deform |-> FALSE]

MeshOneUv == [uv_textures |-> <<"UVMap">>, active_index |-> 0,
              color |-> TRUE, deform |-> TRUE]

MeshTwoUv == [uv_textures |-> <<"UVMap", "LightMap">>, active_index |-> 0,
              color |-> TRUE, deform |-> TRUE]

MeshKinds == {MeshBare, MeshOneUv, MeshTwoUv}

\* ob.vertex_groups (names) and the export bones of the armature
VertexGroups == <<"root", "spine", "ctrl", "arm", "hand", "head">>

ExportBones == <<"root", "spine", "arm", "hand", "head">>

\* Vertices of the bmesh after bm.transform: co, normal and deform weights
\* (vertex group number -> weight, for the groups the vertex is in).
Vertices ==
    <<[co |-> <<0, 0, 1>>, normal |-> <<0, 0, 1>>,
       weights |-> (0 :> 5 @@ 1 :> 3 @@ 2 :> 9)],
      [co |-> <<2, 0, 1>>, normal |-> <<0, 1, 0>>,
       weights |-> (0 :> 1 @@ 1 :> 2 @@ 2 :> 9 @@ 3 :> 3 @@ 4 :> 4 @@ 5 :> 5)],
      [co |-> <<2, 2, 1>>, normal |-> <<1, 0, 0>>,
       weights |-> (0 :> 2 @@ 1 :> 2 @@ 3 :> 2 @@ 4 :> 2 @@ 5 :> 2)],
      [co |-> <<0, 2, 1>>, normal |-> <<0, 1, 1>>,
       weights |-> (1 :> 0)],
      [co |-> <<0 - 2, 0 - 2, 0 - 1>>, normal |-> <<0, 0, 0 - 1>>,
       weights |-> (1 :> 7 @@ 5 :> 7)],
      [co |-> <<0 - 1, 0, 1>>, normal |-> <<0, 0, 1>>,
       weights |-> (0 :> 1)],
      [co |-> <<0 - 2, 0, 1>>, normal |-> <<0, 0, 1>>,
       weights |-> (0 :> 1)]>>

\* A face loop: its vertex, its uv in every uv layer, its vertex colour.
Loop(v, uvs, col) == [vert |-> v, uv |-> uvs, color |-> col]

\* The triangles bmesh can hand out: the two halves of a quad, and a triangle
\* that meets the second half along an edge with a uv seam at one end.
FacePool ==
    {<<Loop(1, <<<<0, 0>>, <<3, 3>>>>, <<1, 0, 0>>),
       Loop(2, <<<<1, 0>>, <<4, 3>>>>, <<0, 1, 0>>),
       Loop(3, <<<<1, 1>>, <<4, 4>>>>, <<0, 0, 1>>)>>,
     <<Loop(3, <<<<1, 1>>, <<4, 4>>>>, <<0, 0, 1>>),
       Loop(4, <<<<0, 1>>, <<3, 4>>>>, <<1, 1, 0>>),
       Loop(1, <<<<0, 0>>, <<3, 3>>>>, <<1, 0, 0>>)>>,
     <<Loop(3, <<<<2, 2>>, <<4, 4>>>>, <<0, 0, 1>>),
       Loop(4, <<<<0, 1>>, <<3, 4>>>>, <<1, 1, 0>>),
       Loop(5, <<<<0, 0>>, <<0, 0>>>>, <<1, 1, 1>>)>>}

(***************************************************************************)
(* export_mesh: helpers.                                                   *)
(***************************************************************************)
\* _create_attribute(size), without the array
_create_attribute(name, size) == [name |-> name, itemSize |-> size]

HasAttr(attrs, name) == \E i \in 1..Len(attrs) : attrs[i].name = name

\* any(True for m in maps for n, t in textures.items() if t is not None and m == n)
AnyTexture(textures, maps) ==
    \E i \in 1..Len(TexNames) :
        TexOf(textures, TexNames[i]).present /\ TexNames[i] \in maps

\* the body of "for mat in mesh.materials" of _create_export_attributes
AttrsOfMaterial(attrs, mat) ==
    IF mat.isNone THEN attrs
    ELSE LET textures == TexMapGet(mat)
             a1 == IF ~textures.isNone /\ ~HasAttr(attrs, "uv")
                      /\ AnyTexture(textures, UV_MAPS)
                   THEN Append(attrs, _create_attribute("uv", 2)) ELSE attrs
             a2 == IF ~textures.isNone /\ ~HasAttr(a1, "uv2")
                      /\ AnyTexture(textures, UV2_MAPS)
                   THEN Append(a1, _create_attribute("uv2", 2)) ELSE a1
         IN IF ~HasAttr(a2, "color") /\ mat.use_vertex_color_paint
            THEN Append(a2, _create_attribute("color", 3)) ELSE a2

RECURSIVE AttrsOfMaterials(_, _)
AttrsOfMaterials(attrs, mats) ==
    IF mats = << >> THEN attrs
    ELSE AttrsOfMaterials(AttrsOfMaterial(attrs, Head(mats)), Tail(mats))

\* the attributes mapping, in insertion order
_create_export_attributes(mats, hasArm) ==
    LET base == <<_create_attribute("position", 3), _create_attribute("normal", 3)>>
        a == AttrsOfMaterials(base, mats)
    IN IF hasArm
       THEN a \o <<_create_attribute("skinIndex", 4), _create_attribute("skinWeight", 4)>>
       ELSE a

\* _get_uv_layer: the number of the uv layer to read, -1 for None
_get_uv_layer(msh, texs, uv2) ==
    IF texs.isNone THEN 0 - 1
    ELSE LET uv_maps == IF uv2 THEN UV2_MAPS ELSE UV_MAPS
             hits == {i \in 1..Len(TexNames) :
                        TexOf(texs, TexNames[i]).present /\ TexNames[i] \in uv_maps}
             uv_name == IF hits = {} THEN ""
                        ELSE TexOf(texs, TexNames[CHOOSE i \in hits :
                                        \A j \in hits : i <= j]).uv_layer
             named == {i \in 1..Len(msh.uv_textures) : msh.uv_textures[i] = uv_name}
         IN IF named = {} THEN msh.active_index
            ELSE (CHOOSE i \in named : \A j \in named : i <= j) - 1

\* bone_map: export bone name -> index
BoneIndex(name) == (CHOOSE i \in 1..Len(ExportBones) : ExportBones[i] = name) - 1

\* g.name in vgroup_map
InVgroupMap(name) == name \in Range(ExportBones)

RECURSIVE VgroupData(_, _)
\* [(vgroup_map[g.name], deform_vert.get(i, 0.0)) for i, g in
\*  enumerate(ob.vertex_groups) if g.name in vgroup_map], from group i on
VgroupData(deform_vert, i) ==
    IF i >= Len(VertexGroups) THEN << >>
    ELSE LET name == VertexGroups[i + 1]
             w == IF i \in DOMAIN deform_vert THEN deform_vert[i] ELSE 0
         IN (IF InVgroupMap(name) THEN <<<<BoneIndex(name), w>>>> ELSE << >>)
            \o VgroupData(deform_vert, i + 1)

RECURSIVE SortByWeight(_)
\* list.sort(key=lambda x: x[1], reverse=True): stable, largest weight first
SortByWeight(seq) ==
    IF seq = << >> THEN << >>
    ELSE LET best == CHOOSE i \in 1..Len(seq) :
                        /\ \A j \in 1..Len(seq) : seq[j][2] <= seq[i][2]
                        /\ \A j \in 1..(i - 1) : seq[j][2] < seq[i][2]
             rest == [k \in 1..(Len(seq) - 1) |-> IF k < best THEN seq[k] ELSE seq[k + 1]]
         IN <<seq[best]>> \o SortByWeight(rest)

\* del vgroup_data[4:]; vgroup_data += [(0, 0.0)] * (4 - len(vgroup_data))
FourInfluences(seq) ==
    [k \in 1..4 |-> IF k <= Len(seq) THEN seq[k] ELSE <<0, 0>>]

SkinOf(deform_vert) == FourInfluences(SortByWeight(VgroupData(deform_vert, 0)))

(***************************************************************************)
(* State.                                                                  *)
(***************************************************************************)
VARIABLES
    prog,           \* the exporter that runs: "export_mesh" or "parse_mesh_faces"
    pc,             \* position in the exporter's code
    mesh,           \* export_mesh: the custom-data layers of the mesh
    materials,      \* export_mesh: mesh.materials
    arm,            \* export_mesh: TRUE when _get_export_armature found an armature
    faces,          \* export_mesh: material_index of every face (mesh, then bm.faces)
    attributes,     \* export_mesh: data["attributes"], in insertion order
    arrays,         \* export_mesh: attributes[i]["array"], None until it is set
    mat_index,      \* export_mesh: enumerate index of the material loop
    group_start,    \* export_mesh: group_start of the current material
    layers,         \* export_mesh: uv/uv2/color/deform layers of the current material
    face_pos,       \* export_mesh: number of bm.faces the face generator has passed
    face,           \* export_mesh: the loops of the current face
    loop_pos,       \* export_mesh: number of loops of the current face already scanned
    vertex_map,     \* export_mesh: OrderedDict, as its entries in insertion order
    index_array,    \* export_mesh: data["index"]["array"]
    groups,         \* export_mesh: data["groups"]
    min_vertex,     \* export_mesh: running minimum corner
    max_vertex,     \* export_mesh: running maximum corner
    bounding_sphere,\* export_mesh: data["boundingSphere"], in half units
    scanned,        \* history: the attribute tuple and material of every scanned loop
    sf_material_index, \* parse_mesh_faces: material_index argument, -1 for None
    sf_tessfaces,   \* parse_mesh_faces: material_index of every mesh.tessfaces entry
    sf_num_uv_layers,  \* parse_mesh_faces: len(mesh.tessface_uv_textures)
    sf_pos,         \* parse_mesh_faces: number of material_faces already processed
    sf_geometry,    \* parse_mesh_faces: _index_map and the arrays of the geometry
    sf_history,     \* history: vertex tuples and indices of every processed face
    float_precision,\* Encoder: self.float_precision
    ef_f,           \* encode_float: the argument f, as sign and magnitude
    ef_up,          \* encode_float: round() resolves a decimal tie upwards
    ef_text,        \* encode_float: the returned text, None before the call returns
    skip_empty,     \* Encoder: self.skip_empty
    skipkeys,       \* Encoder: self.skipkeys
    indent,         \* Encoder: self.indent
    separators,     \* Encoder: self.item_separator and self.key_separator
    default,        \* Encoder: self.default, "none" when no callback was given
    root,           \* iterencode: the id of the argument o
    root_node,      \* iterencode: the container built for this call, with id 0
    listify,        \* iterencode: every generator has been replaced by a list
    run1,           \* history: how the call on the generators ended and its text
    stack,          \* iterencode: the generators that are suspended or running
    markers,        \* iterencode: the keys of markers
    out,            \* iterencode: the fragments yielded so far
    gen_pos,        \* iterencode: the items every generator object has handed out
    pulls,          \* history: every item pulled from a sequence
    calls,          \* history: every object handed to default
    console_only,   \* execute: self.console_only
    filepath,       \* execute: the directory of self.filepath
    chunks,         \* execute: the fragments encoder.iterencode(out) will yield
    chunk_pos,      \* execute: the fragments taken from chunks
    file_open,      \* execute: the file opened at tmp is open
    disk,           \* execute: the files at tmp and at self.filepath
    disk_entry,     \* history: disk when execute was entered
    console,        \* execute: the text printed to the console, None before
    ob_parent,      \* scene: ob.parent of every object of scene.objects
    ob_visible,     \* scene: ob.is_visible(scene) of every object
    maps,           \* Exporter: the dicts that are attributes of the class
    exporters,      \* Exporter: self.root, self.objects and the state of every instance
    maps_at_parse,  \* history: the maps as the last parse of every instance left them
    last_parse,     \* history: the instance that parsed last
    last_export,    \* history: the last call of Exporter.export and its outcome
    eo_ob,          \* export_object: ob.type and ob.data.type of the argument ob
    eo_exporter     \* export_object: an exporter is given

meshVars == <<mesh, materials, arm, faces, attributes, arrays, mat_index, group_start,
              layers, face_pos, face, loop_pos, vertex_map, index_array, groups,
              min_vertex, max_vertex, bounding_sphere, scanned>>

sfVars == <<sf_material_index, sf_tessfaces, sf_num_uv_layers, sf_pos, sf_geometry,
            sf_history>>

floatVars == <<float_precision, ef_f, ef_up, ef_text>>

optVars == <<skip_empty, skipkeys, indent, separators, default, root, root_node>>

iterVars == <<optVars, listify, run1, stack, markers, out, gen_pos, pulls, calls>>

encVars == <<floatVars, iterVars>>

execVars == <<console_only, filepath, chunks, chunk_pos, file_open, disk, disk_entry, console>>

exporterVars == <<ob_parent, ob_visible, maps, exporters, maps_at_parse, last_parse,
                  last_export, eo_ob, eo_exporter>>

\* the add-on's module-level maps, the scene's selection and frame, and one call of export()
VARIABLES globals, selected_objects, frame_current, sel_obs, sel_frame, ax_scene, ax_props,
          ax_queue, ax_ob, ax_raised, ax_before, ax_written

addonVars == <<globals, selected_objects, frame_current, sel_obs, sel_frame, ax_scene,
               ax_props, ax_queue, ax_ob, ax_raised, ax_before, ax_written>>

appVars == <<execVars, exporterVars, addonVars>>

vars == <<prog, pc, meshVars, sfVars, encVars, appVars>>

NoLayers == [uv_layer |-> 0 - 1, uv2_layer |-> 0 - 1, color_layer |-> FALSE,
             deform_layer |-> FALSE]

NoSphere == [set |-> FALSE, center |-> <<0, 0, 0>>, radius_sq |-> 0]

(***************************************************************************)
(* export_mesh: the face scan.                                             *)
(***************************************************************************)
RECURSIVE SortFaces(_)
\* bm.faces.sort(key=lambda f: f.material_index): stable, ascending
SortFaces(fs) ==
    IF fs = << >> THEN << >>
    ELSE LET least == CHOOSE i \in 1..Len(fs) :
                         /\ \A j \in 1..Len(fs) : fs[i] <= fs[j]
                         /\ \A j \in 1..(i - 1) : fs[i] < fs[j]
             rest == [k \in 1..(Len(fs) - 1) |-> IF k < least THEN fs[k] ELSE fs[k + 1]]
         IN <<fs[least]>> \o SortFaces(rest)

\* mesh.materials or [None]
MaterialsOrNone(mats) == IF mats = << >> THEN <<NoMaterial>> ELSE mats

\* the next face of bm.faces whatever its material
NextFaceWith_NoFilter(fs, p, m) == IF p < Len(fs) THEN p + 1 ELSE 0

\* the next face of bm.faces, after position p, with f.material_index == m
\* (0 when the generator is exhausted)
NextFaceWith(fs, p, m) ==
    LET hits == {j \in (p + 1)..Len(fs) : fs[j] = m}
    IN IF hits = {} THEN 0 ELSE CHOOSE j \in hits : \A k \in hits : j <= k

\* _update_bounds(co), for one corner
MinCorner(mn, co) == <<Min(mn[1], co[1]), Min(mn[2], co[2]), Min(mn[3], co[3])>>

MaxCorner(mx, co) == <<Max(mx[1], co[1]), Max(mx[2], co[2]), Max(mx[3], co[3])>>

\* min_vertex, max_vertex = Vector(), Vector()
InitialCorner == <<0, 0, 0>>

\* a uv attribute taken from a layer that is missing (no default substituted)
UvOf_NoDefault(loop, attrs, name, layer) ==
    IF HasAttr(attrs, name) /\ layer # 0 - 1 THEN loop.uv[layer + 1] ELSE None

\* lines 307-325: uv (uv2) of a loop: None, the layer's value or DEFAULT_UV
UvOf(loop, attrs, name, layer) ==
    IF HasAttr(attrs, name)
    THEN (IF layer # 0 - 1 THEN loop.uv[layer + 1] ELSE DEFAULT_UV)
    ELSE None

\* lines 327-335: color of a loop
ColorOf(loop, attrs, color_layer) ==
    IF HasAttr(attrs, "color")
    THEN (IF color_layer THEN loop.color ELSE COLOR_WHITE)
    ELSE None

\* lines 337-361: (skin_index, skin_weight) of a vertex
SkinDataOf(vert, attrs, deform_layer) ==
    IF HasAttr(attrs, "skinIndex")
    THEN (IF deform_layer
          THEN LET skin == SkinOf(vert.weights)
               IN <<[k \in 1..4 |-> skin[k][1]], [k \in 1..4 |-> skin[k][2]]>>
          ELSE <<<<0, 0, 0, 0>>, <<0, 0, 0, 0>>>>)
    ELSE <<None, None>>

\* lines 301-365: the vertex data tuple of a loop
VertexData(loop, attrs, lay) ==
    LET vert == Vertices[loop.vert]
        position == vert.co
        normal == vert.normal
        uv == UvOf(loop, attrs, "uv", lay.uv_layer)
        uv2 == UvOf(loop, attrs, "uv2", lay.uv2_layer)
        color == ColorOf(loop, attrs, lay.color_layer)
        skin == SkinDataOf(vert, attrs, lay.deform_layer)
    IN <<position, normal, uv, uv2, color, skin[1], skin[2]>>

\* two vertices are the same when their positions are (welding by position)
SameKey_PositionOnly(a, b) == a[1] = b[1]

\* equality of two vertex data tuples, as the OrderedDict decides it
SameKey(a, b) == a = b

\* a lookup that only sees the keys used by the current material
InVertexMap_PerMaterial(vm, vertex_data) ==
    \E e \in 1..Len(vm) :
        /\ SameKey(vm[e].key, vertex_data)
        /\ \E i \in (group_start + 1)..Len(index_array) : index_array[i] = vm[e].index

\* vertex_data in vertex_map
InVertexMap(vm, vertex_data) == \E i \in 1..Len(vm) : SameKey(vm[i].key, vertex_data)

\* vertex_map[vertex_data]
VertexMapGet(vm, vertex_data) ==
    vm[CHOOSE i \in 1..Len(vm) : SameKey(vm[i].key, vertex_data)].index

\* the index is taken from the index array instead of the map
NewVertexIndex_LoopCount(vm, ia) == Len(ia)

\* vertex_index = len(vertex_map)
NewVertexIndex(vm, ia) == Len(vm)

\* lines 366-370: the map after the lookup of vertex_data
MapVertex(vm, ia, vertex_data) ==
    IF InVertexMap(vm, vertex_data) THEN vm
    ELSE Append(vm, [key |-> vertex_data, index |-> NewVertexIndex(vm, ia)])

\* a group whose count is the end of its range
_create_group_EndAsCount(start, ia, mi) ==
    [start |-> start, count |-> Len(ia), materialIndex |-> mi]

\* _create_group(group_start, len(index_array) - group_start, mat_index)
_create_group(start, ia, mi) ==
    [start |-> start, count |-> Len(ia) - start, materialIndex |-> mi]

\* the data is written once per scanned loop instead of once per unique vertex
_get_vertex_data_iter_PerLoop(vm, offset) ==
    Flatten([i \in 1..Len(index_array) |-> vm[index_array[i] + 1].key[offset + 1]])

\* _get_vertex_data_iter(offset): v[offset] for v in vertex_map, flattened
_get_vertex_data_iter(vm, offset) ==
    Flatten([i \in 1..Len(vm) |-> vm[i].key[offset + 1]])

\* the tuple component _set_vertex_data_arrays reads for an attribute
OffsetOf(name) ==
    CASE name = "position" -> 0
      [] name = "normal" -> 1
      [] name = "uv" -> 2
      [] name = "uv2" -> 3
      [] name = "color" -> 4
      [] name = "skinIndex" -> 5
      [] name = "skinWeight" -> 6

\* _set_vertex_data_arrays()
_set_vertex_data_arrays(attrs, vm) ==
    [i \in 1..Len(attrs) |-> _get_vertex_data_iter(vm, OffsetOf(attrs[i].name))]

\* lines 385-389, in half units: center is twice the midpoint, radius_sq is
\* four times the squared length of (max_vertex - center)
BoundingSphere(mn, mx) ==
    LET c == <<mn[1] + mx[1], mn[2] + mx[2], mn[3] + mx[3]>>
        d == <<2 * mx[1] - c[1], 2 * mx[2] - c[2], 2 * mx[3] - c[3]>>
    IN [set |-> TRUE, center |-> c,
        radius_sq |-> d[1] * d[1] + d[2] * d[2] + d[3] * d[3]]

\* create_geometry_dict(name, num_uv_layers): the maps and arrays of a new geometry
create_geometry_dict ==
    [_index_map |-> << >>, position |-> << >>, normal |-> << >>, uv |-> << >>,
     uv2 |-> << >>, index |-> << >>]

(***************************************************************************)
(* encoder.py: Encoder.encode_float.                                       *)
(*                                                                         *)
(* A float is a sign and a magnitude, the magnitude counted in units of    *)
(* 10^-FloatDigits, so that negative zero is a value of its own.  Text is  *)
(* a sequence of one-character strings.                                    *)
(***************************************************************************)
RECURSIVE Pow10(_)
\* 10 ** n
Pow10(n) == IF n = 0 THEN 1 ELSE 10 * Pow10(n - 1)

\* the characters of the decimal digits 0..9
DigitChars == <<"0", "1", "2", "3", "4", "5", "6", "7", "8", "9">>

RECURSIVE Digits(_)
\* str(n) of a natural number n
Digits(n) == IF n < 10 THEN <<DigitChars[n + 1]>>
             ELSE Digits(n \div 10) \o <<DigitChars[(n % 10) + 1]>>

RECURSIVE PadDigits(_, _)
\* the decimal digits of n, zero-padded on the left to width k
PadDigits(n, k) == IF k = 0 THEN << >>
                   ELSE PadDigits(n \div 10, k - 1) \o <<DigitChars[(n % 10) + 1]>>

\* float(v) of a decimal v given in units of 10^-FloatDigits
Float(v) == [neg |-> v < 0, mag |-> IF v < 0 THEN 0 - v ELSE v]

\* round(f, p): the magnitude becomes a count of units of 10^-p and the sign
\* is kept, so a small negative value rounds to negative zero.  A decimal
\* tie is resolved by the binary value of the float: either way may happen.
round(f, p, up) ==
    IF p >= FloatDigits THEN [neg |-> f.neg, mag |-> f.mag * Pow10(p - FloatDigits)]
    ELSE LET unit == Pow10(FloatDigits - p)
             q == f.mag \div unit
             r == f.mag % unit
         IN [neg |-> f.neg,
             mag |-> IF 2 * r > unit \/ (2 * r = unit /\ up) THEN q + 1 ELSE q]

\* the mutant of PlusZero: negative zero is left as it is
PlusZero_KeepSign(f) == f

\* x + 0 of a float x: negative zero becomes positive zero
PlusZero(f) == IF f.mag = 0 THEN [neg |-> FALSE, mag |-> 0] ELSE f

\* "%.*f" % (p, x) of a float x whose magnitude counts units of 10^-p
FormatFixed(x, p) ==
    (IF x.neg THEN <<"-">> ELSE << >>)
    \o Digits(x.mag \div Pow10(p))
    \o (IF p > 0 THEN <<".">> \o PadDigits(x.mag % Pow10(p), p) ELSE << >>)

RECURSIVE rstrip(_, _)
\* str.rstrip(c) for a single character c
rstrip(s, c) == IF s # << >> /\ s[Len(s)] = c THEN rstrip(SubSeq(s, 1, Len(s) - 1), c)
                ELSE s

\* lines 43-47
encode_float(f, p, up) ==
    rstrip(rstrip(FormatFixed(PlusZero(round(f, p, up)), p), "0"), ".")

\* the floats handed to encode_float: the mantissas up to MaxMantissa at every
\* decimal exponent, and 1.2345
FloatInputs ==
    LET mags == {m * Pow10(e) : m \in 0..MaxMantissa, e \in 0..(FloatDigits + 1)}
                \cup {12345 * Pow10(FloatDigits - 4), 125 * Pow10(FloatDigits - 2)}
    IN {[neg |-> n, mag |-> m] : n \in BOOLEAN, m \in mags}

\* operator.py 86-92: the float_precision values of the export operator
FloatPrecisions == FLOAT_PRECISION_MIN..Min(FLOAT_PRECISION_MAX, MaxPrecision)

\* encode_float does not run
FloatIdle ==
    /\ ef_f = Float(0)
    /\ ef_up = FALSE
    /\ ef_text = None

(***************************************************************************)
(* encoder.py: Encoder.iterencode.                                         *)
(*                                                                         *)
(* The value to encode is a heap of nodes, a node named by its index (the  *)
(* id() of the Python object); index 0 names the container built for one   *)
(* call.  The generators of iterencode are a stack of frames, and every    *)
(* yield appends one fragment, a sequence of tokens, to out.               *)
(***************************************************************************)
Node(kind, val, text, items, entries, type) ==
    [kind |-> kind, val |-> val, text |-> text, items |-> items, entries |-> entries,
     type |-> type]

Scalar(kind, val) == Node(kind, val, "", << >>, << >>, "")

\* an entry of a dict whose key is of the given type: "str" with the key's
\* text, "null" for None, "true", "false", or "tuple" for a key that is none
\* of str, None, bool, int and float
KeyedEntry(keytype, key, value) == [keytype |-> keytype, key |-> key, value |-> value]

Entry(key, value) == KeyedEntry("str", key, value)

\* the objects a call of iterencode may meet
Heap == <<
    Scalar("null", 0),                                           \* 1  None
    Scalar("bool", 0),                                           \* 2  False
    Scalar("bool", 1),                                           \* 3  True
    Scalar("int", 0),                                            \* 4  0
    Scalar("float", 0),                                          \* 5  0.0
    Node("str", 0, "x", << >>, << >>, ""),                       \* 6  "x"
    Node("list", 0, "", << >>, << >>, ""),                       \* 7  []
    Node("dict", 0, "", << >>, << >>, ""),                       \* 8  {}
    Node("gen", 0, "", << >>, << >>, ""),                        \* 9  (x for x in [])
    Node("list", 0, "", <<4, 1>>, << >>, ""),                    \* 10 [0, None]
    Node("gen", 0, "", <<4, 1>>, << >>, ""),                     \* 11 (x for x in [0, None])
    Node("dict", 0, "", << >>, <<Entry("n", 5), Entry("e", 7)>>, ""),
                                                                 \* 12 {"n": 0.0, "e": []}
    Node("dict", 0, "", << >>, <<Entry("self", 13)>>, ""),       \* 13 d with d["self"] = d
    Node("list", 0, "", <<14>>, << >>, ""),                      \* 14 l with l[0] = l
    Node("obj", 12, "", << >>, << >>, "Mesh"),                   \* 15 a Mesh, exported as 12
    Node("obj", 0, "", << >>, << >>, "tuple"),                   \* 16 a tuple
    Node("obj", 18, "", << >>, << >>, "Object"),                 \* 17 an Object, exported as 18
    Node("dict", 0, "", << >>, <<Entry("children", 19)>>, ""),   \* 18 {"children": [17]}
    Node("list", 0, "", <<17>>, << >>, ""),                      \* 19 [17]
    Node("dict", 0, "", << >>,
         <<Entry("a", 1), Entry("b", 7), Entry("c", 4), Entry("d", 2)>>, ""),
                                                \* 20 {"a": None, "b": [], "c": 0, "d": False}
    Node("list", 0, "", <<4, 16, 4>>, << >>, ""),                \* 21 [0, a tuple, 0]
    Node("obj", 4, "", << >>, << >>, "Color"),                   \* 22 a Color, exported as 0
    Node("list", 0, "", <<12, 3, 6>>, << >>, ""),                \* 23 [{...}, True, "x"]
    Node("float", 0 - 1, "", << >>, << >>, ""),                  \* 24 -0.00001
    Node("list", 0, "", <<26, 3, 2>>, << >>, ""),                \* 25 [-12, True, False]
    Scalar("int", 0 - 12),                                       \* 26 -12
    Node("dict", 0, "", << >>, <<Entry("k", 28)>>, ""),          \* 27 {"k": {...}}
    Node("dict", 0, "", << >>, <<Entry("e", 7), Entry("u", 1)>>, ""),
                                                                 \* 28 {"e": [], "u": None}
    Node("dict", 0, "", << >>,
         <<KeyedEntry("tuple", "", 3), Entry("a", 4), KeyedEntry("tuple", "", 6),
           KeyedEntry("null", "", 4), KeyedEntry("tuple", "", 3)>>, ""),
                         \* 29 {(0, 1): True, "a": 0, (0, 2): "x", None: 0, (0, 3): True}
    Node("dict", 0, "", << >>,
         <<KeyedEntry("true", "", 7), KeyedEntry("false", "", 4), Entry("b", 12),
           KeyedEntry("tuple", "", 1), Entry("c", 10)>>, "")
                \* 30 {True: [], False: 0, "b": {"n": 0.0, "e": []}, (0, 1): None, "c": [0, None]}
    >>

HeapIds == 1..Len(Heap)

\* the objects put into the container that is built for one call
ChildPool == {1, 4, 7, 9, 11, 12, 13, 15}

\* the keys of the mapping that is built for one call, in insertion order
KeyNames == <<"a", "b", "c", "d", "e", "f">>

\* the roots whose mappings have a key that is not a string
KeyedRoots == {29, 30}

\* the containers built for one call
RootNodes ==
    {Node(k, 0, "", c, << >>, "") : k \in {"list", "gen"}, c \in SeqsUpTo(ChildPool, MaxItems)}
    \cup {Node("dict", 0, "", << >>, [i \in 1..Len(c) |-> Entry(KeyNames[i], c[i])], "") :
             c \in SeqsUpTo(ChildPool, MaxItems)}

\* exporter.py 317-353: the types Exporter.export turns into encodable values
ExportableTypes == {"Color", "Matrix", "Scene", "Object", "Mesh", "Material", "Texture",
                    "Image", "Action"}

NoIndent == [isNone |-> TRUE, text |-> ""]

\* operator.py 231-234: the indent and the separators of the export operator
TabIndent == [isNone |-> FALSE, text |-> "\t"]

CompactSeparators == [item |-> <<",">>, key |-> <<":">>]

PrettySeparators == [item |-> <<",">>, key |-> <<":", " ">>]

\* the object with the given id
ObjectAt(id) == IF id = 0 THEN root_node ELSE Heap[id]

\* the type of an object as the tests of iterencode see it; the second call
\* of a run is given a list in the place of every generator
Kind(id) == IF listify /\ ObjectAt(id).kind = "gen" THEN "list" ELSE ObjectAt(id).kind

IsScalar(id) == Kind(id) \in {"null", "bool", "int", "float", "str"}

\* bool(o): a generator and any other object is true, whatever it holds
Truthy(id) ==
    CASE Kind(id) = "null" -> FALSE
      [] Kind(id) \in {"bool", "int", "float"} -> ObjectAt(id).val # 0
      [] Kind(id) = "str" -> ObjectAt(id).text # ""
      [] Kind(id) = "list" -> ObjectAt(id).items # << >>
      [] Kind(id) = "dict" -> ObjectAt(id).entries # << >>
      [] OTHER -> TRUE

\* str(int(value))
IntText(v) == IF v < 0 THEN <<"-">> \o Digits(0 - v) ELSE Digits(v)

\* encode_str(s): the quoted string
encode_str(s) == <<"\"", s, "\"">>

\* isinstance(value, int): bool is a subclass of int
IsInstanceInt(id) == Kind(id) \in {"int", "bool"}

\* lines 91-105, 170-181, 196-207: the text of None, True, False, an int, a
\* float or a str, tested in this order
ScalarText(id) ==
    IF Kind(id) = "null" THEN <<"null">>
    ELSE IF Kind(id) = "bool" /\ ObjectAt(id).val = 1 THEN <<"true">>
    ELSE IF Kind(id) = "bool" /\ ObjectAt(id).val = 0 THEN <<"false">>
    ELSE IF IsInstanceInt(id) THEN IntText(ObjectAt(id).val)
    ELSE IF Kind(id) = "float"
         THEN encode_float(Float(ObjectAt(id).val), float_precision, ef_up)
    ELSE encode_str(ObjectAt(id).text)

\* one generator of iterencode, suspended or running
Frame(fn, node, level) ==
    [fn |-> fn, node |-> node, level |-> level, pc |-> "enter", first |-> TRUE, pos |-> 0]

\* lines 106-116, 182-187, 208-211: the generator a value is handed to
FrameFor(id, level) ==
    IF Kind(id) \in {"list", "gen"} THEN Frame("iter", id, level)
    ELSE IF Kind(id) = "dict" THEN Frame("dict", id, level)
    ELSE Frame("enc", id, level)

Top == stack[Len(stack)]

Pop == SubSeq(stack, 1, Len(stack) - 1)

Replace(frame) == [stack EXCEPT ![Len(stack)] = frame]

Running == prog = "iterencode" /\ pc = "running" /\ stack # << >>

\* the mutant of Skipped: false, 0 and 0.0 are skipped as well
Skipped_AnyFalsy(value) == skip_empty /\ ~Truthy(value)

\* lines 144-147: the entry is left out
Skipped(value) ==
    skip_empty /\ Kind(value) \notin {"bool", "int", "float"} /\ ~Truthy(value)

\* lines 136-137: "\n" + indent * level
NewlineIndent(level) == <<"\n">> \o [i \in 1..level |-> indent.text]

\* the mutant of IsMarked: no object is ever found in markers
IsMarked_Never(id) == FALSE

\* lines 83, 126, 215: markerid in markers
IsMarked(id) == id \in markers

\* the generator ids
GenIds == {0} \cup {i \in HeapIds : Heap[i].kind = "gen"}

\* the mutant of DefaultOf: a type that is not recognised is encoded as null
DefaultOf_Lenient(o) ==
    IF default = "none" \/ (default = "export" /\ ObjectAt(o).type \notin ExportableTypes)
    THEN [raises |-> FALSE, value |-> 1]
    ELSE [raises |-> FALSE, value |-> IF default = "export" THEN ObjectAt(o).val ELSE o]

\* default(o): json.JSONEncoder.default raises TypeError, Exporter.export
\* (exporter.py 317-353) raises it for a type it does not know, and a
\* callback may return the object it was given
DefaultOf(o) ==
    IF default = "none" \/ (default = "export" /\ ObjectAt(o).type \notin ExportableTypes)
    THEN [raises |-> TRUE, value |-> o]
    ELSE [raises |-> FALSE, value |-> IF default = "export" THEN ObjectAt(o).val ELSE o]

NoRun == [status |-> "", text |-> << >>]

\* iterencode does not run
IterencodeIdle ==
    /\ skip_empty = TRUE
    /\ skipkeys = FALSE
    /\ indent = NoIndent
    /\ separators = CompactSeparators
    /\ default = "none"
    /\ root = 1
    /\ root_node = Heap[7]
    /\ listify = FALSE
    /\ run1 = NoRun
    /\ stack = << >>
    /\ markers = {}
    /\ out = << >>
    /\ gen_pos = [g \in GenIds |-> 0]
    /\ pulls = << >>
    /\ calls = << >>

\* the encoder does not run
EncIdle ==
    /\ float_precision = FLOAT_PRECISION_DEFAULT
    /\ FloatIdle
    /\ IterencodeIdle

(***************************************************************************)
(* operator.py: ExportOperator.execute from the call of iterencode on.     *)
(* The encoder is seen as the generator it returns: a number of fragments  *)
(* and then either the end or an exception. A file is named by its         *)
(* directory, the base name being the same for tmp and filepath.           *)
(***************************************************************************)
\* bpy.app.tempdir and another directory
Directories == {"tempdir", "outdir"}

\* line 251: tmp = tempdir + basename(self.filepath)
tmp == "tempdir"

NoFile == [exists |-> FALSE, content |-> << >>]

\* a file left by an earlier export
OldFile == [exists |-> TRUE, content |-> <<0>>]

\* the generators iterencode may return: len fragments, then the end or an
\* exception of the encoder or of Exporter.export
ChunkStreams ==
    {[len |-> n, raises |-> r] : n \in 0..MaxChunks, r \in BOOLEAN} \ {[len |-> 0, raises |-> FALSE]}

\* execute does not run
ExecIdle ==
    /\ console_only = FALSE
    /\ filepath = "outdir"
    /\ chunks = [len |-> 1, raises |-> FALSE]
    /\ chunk_pos = 0
    /\ file_open = FALSE
    /\ disk = [d \in Directories |-> NoFile]
    /\ disk_entry = [d \in Directories |-> NoFile]
    /\ console = None

(***************************************************************************)
(* exporter.py, util.py, scene.py, object.py: the scene graph, the maps of *)
(* class Exporter and its instances. A Blender object is its index in      *)
(* scene.objects, 0 stands for None. The first object is an armature with  *)
(* an action, the second a mesh with one material, the others are empties. *)
(***************************************************************************)
ObjectIds == 1..MaxObjects

\* ob.type
ObType(ob) == IF ob = 1 THEN "ARMATURE" ELSE IF ob = 2 THEN "MESH" ELSE "EMPTY"

\* ob.data of a mesh object, mesh.materials and the textures of the material
MeshData == "Mesh"

MeshMaterial == "Material"

\* ob.data of the armature object and ob.animation_data.action
ArmatureData == "Armature"

ArmatureAction == "Action"

\* the parents a scene may give its objects: a forest
ParentMaps == {p \in [ObjectIds -> 0..MaxObjects] : \A o \in ObjectIds : p[o] < o}

\* ob.select, in every scene
Selected == {o \in ObjectIds : o # 2}

\* the Exporter instances
Instances == {"A", "B"}

\* the class attributes scene, root and objects before parse has set them
NewExporter == [root |-> 0, is_scene |-> FALSE, objects |-> << >>, out |-> "none"]

\* lines 33-39: the seven dicts of class Exporter
EmptyMaps ==
    [_ob_map |-> << >>, _geom_map |-> << >>, _mat_map |-> << >>, _tex_map |-> << >>,
     _arm_map |-> << >>, _bone_map |-> << >>, _act_map |-> << >>]

NoExport == [by |-> "", ob |-> 0, raises |-> "", type |-> "", children |-> << >>]

\* no Exporter has parsed
ExporterIdle ==
    /\ ob_parent = [o \in ObjectIds |-> 0]
    /\ ob_visible = [o \in ObjectIds |-> TRUE]
    /\ maps = EmptyMaps
    /\ exporters = [i \in Instances |-> NewExporter]
    /\ maps_at_parse = [i \in Instances |-> EmptyMaps]
    /\ last_parse = ""
    /\ last_export = NoExport
    /\ eo_ob = [type |-> "EMPTY", data_type |-> ""]
    /\ eo_exporter = FALSE

\* export.py 64-71: the module-level maps and the root object's children
GlobalNames == {"_g_materials", "_g_geometries", "_g_shared_geometries", "_g_objects",
                "children"}

\* export.py 64-71: the maps as the module makes them on import
NewGlobals == [g \in GlobalNames |-> {}]

\* the frames of the scene's range, range(frame_start, frame_end, frame_step)
FrameRange == <<1, 2, 3>>

\* no call of the add-on's export() runs
AddonIdle ==
    /\ globals = NewGlobals
    /\ selected_objects = {}
    /\ frame_current = FrameRange[1]
    /\ sel_obs = {}
    /\ sel_frame = 0
    /\ ax_scene = [o \in ObjectIds |-> "EMPTY"]
    /\ ax_props = [object_types |-> {}, selected_only |-> FALSE, export_ambient |-> FALSE,
                   morph_animations |-> FALSE]
    /\ ax_queue = << >>
    /\ ax_ob = 0
    /\ ax_raised = ""
    /\ ax_before = [globals |-> NewGlobals, frame |-> 0]
    /\ ax_written = FALSE

\* no program of the add-on's operator runs
AppIdle == ExecIdle /\ ExporterIdle /\ AddonIdle

\* the single-file exporter does not run
SfIdle ==
    /\ sf_material_index = 0 - 1
    /\ sf_tessfaces = << >>
    /\ sf_num_uv_layers = 0
    /\ sf_pos = 0
    /\ sf_geometry = create_geometry_dict
    /\ sf_history = << >>

\* export_mesh does not run
MeshIdle ==
    /\ mesh = MeshBare
    /\ materials = << >>
    /\ arm = FALSE
    /\ faces = << >>
    /\ attributes = << >>
    /\ arrays = << >>
    /\ mat_index = 0
    /\ group_start = 0
    /\ layers = NoLayers
    /\ face_pos = 0
    /\ face = << >>
    /\ loop_pos = 0
    /\ vertex_map = << >>
    /\ index_array = << >>
    /\ groups = << >>
    /\ min_vertex = InitialCorner
    /\ max_vertex = InitialCorner
    /\ bounding_sphere = NoSphere
    /\ scanned = << >>

InitMesh ==
    /\ prog = "export_mesh"
    /\ pc = "start"
    /\ mesh \in MeshKinds
    /\ materials \in DistinctSeqsUpTo(MaterialSlots, MaxMaterials)
    /\ arm \in BOOLEAN
    /\ faces \in SeqsUpTo(0..MaxMaterials, MaxFaces)
    /\ attributes = << >>
    /\ arrays = << >>
    /\ mat_index = 0
    /\ group_start = 0
    /\ layers = NoLayers
    /\ face_pos = 0
    /\ face = << >>
    /\ loop_pos = 0
    /\ vertex_map = << >>
    /\ index_array = << >>
    /\ groups = << >>
    /\ min_vertex = InitialCorner
    /\ max_vertex = InitialCorner
    /\ bounding_sphere = NoSphere
    /\ scanned = << >>
    /\ SfIdle
    /\ EncIdle
    /\ AppIdle

\* lines 240-277: attributes are created, the bmesh is built and sorted
Setup ==
    /\ prog = "export_mesh" /\ pc = "start"
    /\ attributes' = _create_export_attributes(materials, arm)
    /\ arrays' = [i \in 1..Len(attributes') |-> None]
    /\ faces' = SortFaces(faces)
    /\ pc' = "material"
    /\ UNCHANGED <<appVars, encVars, sfVars, prog, mesh, materials, arm, mat_index, group_start, layers, face_pos,
                   face, loop_pos, vertex_map, index_array, groups, min_vertex,
                   max_vertex, bounding_sphere, scanned>>

\* lines 280-290: the next material starts a group and picks its layers
StartMaterial ==
    /\ prog = "export_mesh" /\ pc = "material"
    /\ mat_index < Len(MaterialsOrNone(materials))
    /\ LET mat == MaterialsOrNone(materials)[mat_index + 1]
           texs == TexMapGet(mat)
       IN layers' = [uv_layer |-> _get_uv_layer(mesh, texs, FALSE),
                     uv2_layer |-> _get_uv_layer(mesh, texs, TRUE),
                     color_layer |-> mesh.color,
                     deform_layer |-> mesh.deform]
    /\ group_start' = Len(index_array)
    /\ face_pos' = 0
    /\ pc' = "faces"
    /\ UNCHANGED <<appVars, encVars, sfVars, prog, mesh, materials, arm, faces, attributes, arrays, mat_index,
                   face, loop_pos, vertex_map, index_array, groups, min_vertex,
                   max_vertex, bounding_sphere, scanned>>

\* line 293: the generator yields the next face of this material
NextFace ==
    /\ prog = "export_mesh" /\ pc = "faces"
    /\ NextFaceWith(faces, face_pos, mat_index) # 0
    /\ face_pos' = NextFaceWith(faces, face_pos, mat_index)
    /\ \E f \in FacePool : face' = f
    /\ loop_pos' = 0
    /\ pc' = "loops"
    /\ UNCHANGED <<appVars, encVars, sfVars, prog, mesh, materials, arm, faces, attributes, arrays, mat_index,
                   group_start, layers, vertex_map, index_array, groups, min_vertex,
                   max_vertex, bounding_sphere, scanned>>

\* lines 294-371: one loop of the face
ScanLoop ==
    /\ prog = "export_mesh" /\ pc = "loops"
    /\ LET loop == face[loop_pos + 1]
           co == Vertices[loop.vert].co
           vertex_data == VertexData(loop, attributes, layers)
           vm == MapVertex(vertex_map, index_array, vertex_data)
       IN /\ min_vertex' = MinCorner(min_vertex, co)
          /\ max_vertex' = MaxCorner(max_vertex, co)
          /\ vertex_map' = vm
          /\ index_array' = Append(index_array, VertexMapGet(vm, vertex_data))
          /\ scanned' = Append(scanned, [data |-> vertex_data, mat |-> mat_index])
    /\ loop_pos' = loop_pos + 1
    /\ pc' = IF loop_pos' = Len(face) THEN "faces" ELSE "loops"
    /\ UNCHANGED <<appVars, encVars, sfVars, prog, mesh, materials, arm, faces, attributes, arrays, mat_index,
                   group_start, layers, face_pos, face, groups, bounding_sphere>>

\* lines 373-376: the faces of the material are exhausted
EndMaterial ==
    /\ prog = "export_mesh" /\ pc = "faces"
    /\ NextFaceWith(faces, face_pos, mat_index) = 0
    /\ groups' = Append(groups, _create_group(group_start, index_array, mat_index))
    /\ mat_index' = mat_index + 1
    /\ pc' = "material"
    /\ UNCHANGED <<appVars, encVars, sfVars, prog, mesh, materials, arm, faces, attributes, arrays, group_start,
                   layers, face_pos, face, loop_pos, vertex_map, index_array,
                   min_vertex, max_vertex, bounding_sphere, scanned>>

\* lines 378-400: arrays and bounding sphere
Finish ==
    /\ prog = "export_mesh" /\ pc = "material"
    /\ mat_index = Len(MaterialsOrNone(materials))
    /\ arrays' = _set_vertex_data_arrays(attributes, vertex_map)
    /\ bounding_sphere' = BoundingSphere(min_vertex, max_vertex)
    /\ pc' = "done"
    /\ UNCHANGED <<appVars, encVars, sfVars, prog, mesh, materials, arm, faces, attributes, mat_index, group_start,
                   layers, face_pos, face, loop_pos, vertex_map, index_array, groups,
                   min_vertex, max_vertex, scanned>>

(***************************************************************************)
(* io_mesh_threejs_object.py: ExportThreejsObject.parse_mesh_faces.        *)
(***************************************************************************)
\* A tessface: its 3 or 4 vertices, its shading, its face normal and the uv
\* of every corner in every uv layer.
TessFace(vs, smooth, n, uvs) == [vertices |-> vs, use_smooth |-> smooth, normal |-> n,
                                 uv |-> uvs]

QuadUv == <<<<<<0, 0>>, <<1, 0>>, <<1, 1>>, <<0, 1>>>>,
            <<<<3, 3>>, <<4, 3>>, <<4, 4>>, <<3, 4>>>>>>

FlatUv == <<<<<<0, 0>>, <<0, 0>>, <<0, 0>>>>, <<<<0, 0>>, <<0, 0>>, <<0, 0>>>>>>

TessFacePool ==
    {TessFace(<<1, 2, 3, 4>>, TRUE, <<0, 0, 1>>, QuadUv),
     TessFace(<<1, 2, 3, 4>>, FALSE, <<0, 0, 1>>, QuadUv),
     TessFace(<<1, 2, 3>>, TRUE, <<0, 0, 1>>, FlatUv),
     TessFace(<<6, 7, 1>>, FALSE, <<0, 0, 1>>, FlatUv)}

\* hash() of a float with an integral value: CPython reserves -1, so
\* hash(-1.0) is -2, the hash of -2.0
PyHashNumber(x) == IF x = 0 - 1 THEN 0 - 2 ELSE x

\* hash() of a tuple of numbers (None for None): decided by the hashes of the
\* components alone; the mixing of the component hashes is taken as injective
PyHashVector(t) == [i \in 1..Len(t) |-> PyHashNumber(t[i])]

\* line 245: hash((positions[i], normals[i], uvs[i], uv2s[i]))
VertexKey(data) == [i \in 1..Len(data) |-> PyHashVector(data[i])]

\* lines 219-238: the (position, normal, uv, uv2) tuple of every corner
CornerData(f, num_uv_layers) ==
    [i \in 1..Len(f.vertices) |->
        <<Vertices[f.vertices[i]].co,
          IF f.use_smooth THEN Vertices[f.vertices[i]].normal ELSE f.normal,
          IF num_uv_layers > 0 THEN f.uv[1][i] ELSE None,
          IF num_uv_layers > 1 THEN f.uv[2][i] ELSE None>>]

\* vertex_key in index_map
InIndexMap(im, key) == \E i \in 1..Len(im) : im[i].key = key

\* index_map[vertex_key]
IndexMapGet(im, key) == im[CHOOSE i \in 1..Len(im) : im[i].key = key].index

\* lines 245-258: one corner; the geometry afterwards
AddCorner(geom, data, num_uv_layers) ==
    LET vertex_key == VertexKey(data)
    IN IF InIndexMap(geom._index_map, vertex_key) THEN geom
       ELSE [geom EXCEPT
                !._index_map = Append(@, [key |-> vertex_key, index |-> Len(@)]),
                !.position = @ \o data[1],
                !.normal = @ \o data[2],
                !.uv = IF num_uv_layers > 0 THEN @ \o data[3] ELSE @,
                !.uv2 = IF num_uv_layers > 1 THEN @ \o data[4] ELSE @]

RECURSIVE AddCorners(_, _, _, _)
\* lines 244-258: for i in range(num_face_vertices), from corner i on
AddCorners(geom, corners, i, num_uv_layers) ==
    IF i > Len(corners) THEN geom
    ELSE AddCorners(AddCorner(geom, corners[i], num_uv_layers), corners, i + 1,
                    num_uv_layers)

\* indices[i] after the loop: the index the map holds for corner i
CornerIndices(geom, corners) ==
    [i \in 1..Len(corners) |-> IndexMapGet(geom._index_map, VertexKey(corners[i]))]

\* a quad written as its four indices
FaceTriangles_QuadAsIs(indices) == indices

\* lines 261-263: the triangles of a face
FaceTriangles(indices) ==
    <<indices[1], indices[2], indices[3]>>
    \o (IF Len(indices) = 4 THEN <<indices[3], indices[4], indices[1]>> ELSE << >>)

\* line 177: the number of material_faces
NumMaterialFaces(tessfaces, material_index) ==
    IF material_index = 0 - 1 THEN Len(tessfaces)
    ELSE Cardinality({i \in 1..Len(tessfaces) : tessfaces[i] = material_index})

InitSingleFile ==
    /\ prog = "parse_mesh_faces"
    /\ pc = "sf_start"
    /\ sf_material_index \in (0 - 1)..1
    /\ sf_tessfaces \in SeqsUpTo(0..1, MaxTessFaces)
    /\ sf_num_uv_layers \in 0..2
    /\ sf_pos = 0
    /\ sf_geometry = create_geometry_dict
    /\ sf_history = << >>
    /\ MeshIdle
    /\ EncIdle
    /\ AppIdle

\* lines 175-211: no face of the material returns at once, else the geometry
\* is looked up or created
SfEnter ==
    /\ prog = "parse_mesh_faces" /\ pc = "sf_start"
    /\ pc' = IF NumMaterialFaces(sf_tessfaces, sf_material_index) = 0
             THEN "done" ELSE "sf_faces"
    /\ UNCHANGED <<appVars, prog, meshVars, sfVars, encVars>>

\* lines 214-263: one face of material_faces
SfFace ==
    /\ prog = "parse_mesh_faces" /\ pc = "sf_faces"
    /\ sf_pos < NumMaterialFaces(sf_tessfaces, sf_material_index)
    /\ \E f \in TessFacePool :
          LET corners == CornerData(f, sf_num_uv_layers)
              geom == AddCorners(sf_geometry, corners, 1, sf_num_uv_layers)
              indices == CornerIndices(geom, corners)
          IN /\ sf_geometry' = [geom EXCEPT !.index = @ \o FaceTriangles(indices)]
             /\ sf_history' = Append(sf_history, [corners |-> corners,
                                                  indices |-> indices])
    /\ sf_pos' = sf_pos + 1
    /\ UNCHANGED <<appVars, prog, pc, meshVars, encVars, sf_material_index, sf_tessfaces,
                   sf_num_uv_layers>>

\* the loop over material_faces is exhausted
SfReturn ==
    /\ prog = "parse_mesh_faces" /\ pc = "sf_faces"
    /\ sf_pos = NumMaterialFaces(sf_tessfaces, sf_material_index)
    /\ pc' = "done"
    /\ UNCHANGED <<appVars, prog, meshVars, sfVars, encVars>>

(***************************************************************************)
(* encoder.py: the calls of encode_float and of iterencode.                *)
(***************************************************************************)
InitEncodeFloat ==
    /\ prog = "encode_float"
    /\ pc = "ef_start"
    /\ float_precision \in FloatPrecisions
    /\ ef_f \in FloatInputs
    /\ ef_up \in BOOLEAN
    /\ ef_text = None
    /\ IterencodeIdle
    /\ MeshIdle
    /\ SfIdle
    /\ AppIdle

\* lines 43-47: one call of encode_float
EncodeFloat ==
    /\ prog = "encode_float" /\ pc = "ef_start"
    /\ ef_text' = encode_float(ef_f, float_precision, ef_up)
    /\ pc' = "done"
    /\ UNCHANGED <<appVars, prog, meshVars, sfVars, iterVars, float_precision, ef_f, ef_up>>

InitIterencode ==
    /\ prog = "iterencode"
    /\ pc = "running"
    /\ skip_empty \in BOOLEAN
    /\ indent \in {NoIndent, TabIndent}
    /\ separators \in {CompactSeparators, PrettySeparators}
    /\ default \in {"none", "export", "identity"}
    /\ float_precision = FLOAT_PRECISION_DEFAULT
    /\ FloatIdle
    /\ \/ root = 0 /\ root_node \in RootNodes
       \/ root \in HeapIds /\ root_node = Heap[7]
    /\ skipkeys \in (IF root \in KeyedRoots THEN BOOLEAN ELSE {FALSE})
    /\ listify = FALSE
    /\ run1 = NoRun
    /\ stack = <<FrameFor(root, 0)>>
    /\ markers = {}
    /\ out = << >>
    /\ gen_pos = [g \in GenIds |-> 0]
    /\ pulls = << >>
    /\ calls = << >>
    /\ MeshIdle
    /\ SfIdle
    /\ AppIdle

\* lines 196-207: _iterencode of a scalar
EncScalar ==
    /\ Running /\ Top.fn = "enc" /\ Top.pc = "enter" /\ IsScalar(Top.node)
    /\ out' = Append(out, ScalarText(Top.node))
    /\ stack' = Pop
    /\ UNCHANGED <<appVars, prog, pc, meshVars, sfVars, optVars, floatVars, listify, run1, markers,
                   gen_pos, pulls, calls>>

\* lines 212-219: _iterencode of any other object marks it, hands it to default
\* and encodes what default returns
EncReduce ==
    /\ Running /\ Top.fn = "enc" /\ Top.pc = "enter" /\ ~IsScalar(Top.node)
    /\ IF IsMarked(Top.node)
       THEN /\ pc' = "ValueError"
            /\ UNCHANGED <<stack, markers, calls>>
       ELSE /\ markers' = markers \cup {Top.node}
            /\ calls' = Append(calls, Top.node)
            /\ IF DefaultOf(Top.node).raises
               THEN pc' = "TypeError" /\ UNCHANGED stack
               ELSE /\ stack' = Append(Replace([Top EXCEPT !.pc = "reduced"]),
                                       FrameFor(DefaultOf(Top.node).value, Top.level))
                    /\ UNCHANGED pc
    /\ UNCHANGED <<appVars, prog, meshVars, sfVars, optVars, floatVars, listify, run1, out, gen_pos,
                   pulls>>

\* lines 220-221: the reduced object is done and its marker is deleted
EncReduced ==
    /\ Running /\ Top.fn = "enc" /\ Top.pc = "reduced"
    /\ markers' = markers \ {Top.node}
    /\ stack' = Pop
    /\ UNCHANGED <<appVars, prog, pc, meshVars, sfVars, optVars, floatVars, listify, run1, out,
                   gen_pos, pulls, calls>>

\* lines 78-86: _iterencode_iter up to the opening bracket
IterEnter ==
    /\ Running /\ Top.fn = "iter" /\ Top.pc = "enter"
    /\ IF ~Truthy(Top.node)
       THEN /\ out' = Append(out, <<"[", "]">>)
            /\ stack' = Pop
            /\ UNCHANGED <<pc, markers>>
       ELSE IF IsMarked(Top.node)
       THEN /\ pc' = "ValueError"
            /\ UNCHANGED <<stack, markers, out>>
       ELSE /\ markers' = markers \cup {Top.node}
            /\ out' = Append(out, <<"[">>)
            /\ stack' = Replace([Top EXCEPT !.pc = "loop"])
            /\ UNCHANGED pc
    /\ UNCHANGED <<appVars, prog, meshVars, sfVars, optVars, floatVars, listify, run1, gen_pos,
                   pulls, calls>>

\* the mutant of ItemSeparator: the items of a sequence are put on lines of
\* their own when indent is set, as json.JSONEncoder does
ItemSeparator_Indented ==
    IF indent.isNone THEN separators.item
    ELSE separators.item \o NewlineIndent(Top.level + 1)

\* line 88: separator = item_separator
ItemSeparator == separators.item

\* the mutant of IterPos: a generator is iterated anew by every loop, as if it
\* were made into a list first
IterPos_Restart == Top.pos

\* the number of items the iterator of the sequence on top has handed out: a
\* generator object counts for itself, a list is iterated anew by every loop
IterPos == IF Kind(Top.node) = "gen" THEN gen_pos[Top.node] ELSE Top.pos

\* lines 88-116: the next item of the sequence is pulled and encoded
IterItem ==
    /\ Running /\ Top.fn = "iter" /\ Top.pc = "loop"
    /\ IterPos < Len(ObjectAt(Top.node).items)
    /\ LET value == ObjectAt(Top.node).items[IterPos + 1]
           buf == IF Top.first THEN << >> ELSE ItemSeparator
           here == Replace([Top EXCEPT !.first = FALSE, !.pos = IterPos + 1])
       IN /\ pulls' = Append(pulls, [node |-> Top.node, index |-> IterPos + 1,
                                     fragments |-> Len(out)])
          /\ gen_pos' = IF Kind(Top.node) = "gen"
                        THEN [gen_pos EXCEPT ![Top.node] = IterPos + 1] ELSE gen_pos
          /\ IF IsScalar(value)
             THEN /\ out' = Append(out, buf \o ScalarText(value))
                  /\ stack' = here
             ELSE /\ out' = Append(out, buf)
                  /\ stack' = Append(here, FrameFor(value, Top.level))
    /\ UNCHANGED <<appVars, prog, pc, meshVars, sfVars, optVars, floatVars, listify, run1, markers,
                   calls>>

\* lines 88, 117-118: the sequence is exhausted
IterClose ==
    /\ Running /\ Top.fn = "iter" /\ Top.pc = "loop"
    /\ IterPos >= Len(ObjectAt(Top.node).items)
    /\ out' = Append(out, <<"]">>)
    /\ markers' = markers \ {Top.node}
    /\ stack' = Pop
    /\ UNCHANGED <<appVars, prog, pc, meshVars, sfVars, optVars, floatVars, listify, run1, gen_pos,
                   pulls, calls>>

\* lines 121-141: _iterencode_dict up to the first entry
DictEnter ==
    /\ Running /\ Top.fn = "dict" /\ Top.pc = "enter"
    /\ IF ~Truthy(Top.node)
       THEN /\ out' = Append(out, <<"{", "}">>)
            /\ stack' = Pop
            /\ UNCHANGED <<pc, markers>>
       ELSE IF IsMarked(Top.node)
       THEN /\ pc' = "ValueError"
            /\ UNCHANGED <<stack, markers, out>>
       ELSE /\ markers' = markers \cup {Top.node}
            /\ IF indent.isNone
               THEN /\ out' = Append(out, <<"{">>)
                    /\ stack' = Replace([Top EXCEPT !.pc = "loop"])
               ELSE /\ out' = out \o <<<<"{">>, NewlineIndent(Top.level + 1)>>
                    /\ stack' = Replace([Top EXCEPT !.pc = "loop", !.level = @ + 1])
            /\ UNCHANGED pc
    /\ UNCHANGED <<appVars, prog, meshVars, sfVars, optVars, floatVars, listify, run1, gen_pos,
                   pulls, calls>>

\* the entry the loop of _iterencode_dict comes to next
NextEntry == ObjectAt(Top.node).entries[Top.pos + 1]

\* lines 148-157: the key as a string
KeyText(e) == IF e.keytype = "str" THEN e.key ELSE e.keytype

\* lines 148-161: the key is none of str, None, bool, int and float
KeyRefused(e) == e.keytype = "tuple"

\* lines 143-147, 158-159: an entry with an empty value is passed over, and
\* with skipkeys an entry whose key cannot be written
DictSkip ==
    /\ Running /\ Top.fn = "dict" /\ Top.pc = "loop"
    /\ Top.pos < Len(ObjectAt(Top.node).entries)
    /\ Skipped(NextEntry.value) \/ (KeyRefused(NextEntry) /\ skipkeys)
    /\ stack' = Replace([Top EXCEPT !.pos = @ + 1])
    /\ UNCHANGED <<appVars, prog, pc, meshVars, sfVars, optVars, floatVars, listify, run1, markers,
                   out, gen_pos, pulls, calls>>

\* lines 132-137: the separator between two entries
EntrySeparator == IF indent.isNone THEN separators.item
                  ELSE separators.item \o NewlineIndent(Top.level)

\* the mutant of EntryBuf: the separator is written before every entry
EntryBuf_Always == <<EntrySeparator>>

\* lines 162-165: the separator is written before every entry but the first
\* that is written
EntryBuf == IF Top.first THEN << >> ELSE <<EntrySeparator>>

\* lines 143-187: one entry: separator, key, key separator and value
DictEntry ==
    /\ Running /\ Top.fn = "dict" /\ Top.pc = "loop"
    /\ Top.pos < Len(ObjectAt(Top.node).entries)
    /\ ~Skipped(NextEntry.value) /\ ~KeyRefused(NextEntry)
    /\ LET here == Replace([Top EXCEPT !.first = FALSE, !.pos = @ + 1])
           head == EntryBuf \o <<encode_str(KeyText(NextEntry)), separators.key>>
       IN IF IsScalar(NextEntry.value)
          THEN /\ out' = out \o head \o <<ScalarText(NextEntry.value)>>
               /\ stack' = here
          ELSE /\ out' = out \o head
               /\ stack' = Append(here, FrameFor(NextEntry.value, Top.level))
    /\ UNCHANGED <<appVars, prog, pc, meshVars, sfVars, optVars, floatVars, listify, run1, markers,
                   gen_pos, pulls, calls>>

\* lines 160-161: without skipkeys a key that cannot be written raises
\* TypeError("key ... is not a string")
DictKeyError ==
    /\ Running /\ Top.fn = "dict" /\ Top.pc = "loop"
    /\ Top.pos < Len(ObjectAt(Top.node).entries)
    /\ ~Skipped(NextEntry.value) /\ KeyRefused(NextEntry) /\ ~skipkeys
    /\ pc' = "TypeError_key"
    /\ UNCHANGED <<appVars, prog, meshVars, sfVars, optVars, floatVars, listify, run1, stack,
                   markers, out, gen_pos, pulls, calls>>

\* lines 188-193: the mapping is exhausted
DictClose ==
    /\ Running /\ Top.fn = "dict" /\ Top.pc = "loop"
    /\ Top.pos >= Len(ObjectAt(Top.node).entries)
    /\ out' = out \o (IF indent.isNone THEN << >> ELSE <<NewlineIndent(Top.level - 1)>>)
                  \o <<<<"}">>>>
    /\ markers' = markers \ {Top.node}
    /\ stack' = Pop
    /\ UNCHANGED <<appVars, prog, pc, meshVars, sfVars, optVars, floatVars, listify, run1, gen_pos,
                   pulls, calls>>

\* line 223: the outermost generator is exhausted
EncReturn ==
    /\ prog = "iterencode" /\ pc = "running" /\ stack = << >>
    /\ pc' = "done"
    /\ UNCHANGED <<appVars, prog, meshVars, sfVars, encVars>>

\* iterencode is called again, with a new encoder of the same options, on the
\* same objects with a list in the place of every generator
Rerun ==
    /\ prog = "iterencode" /\ pc \in {"done", "ValueError", "TypeError", "TypeError_key"}
    /\ ~listify
    /\ UNCHANGED <<appVars, prog, meshVars, sfVars, optVars, floatVars>>
    /\ listify' = TRUE
    /\ stack' = <<FrameFor(root, 0)>>'
    /\ run1' = [status |-> pc, text |-> Flatten(out)]
    /\ pc' = "running"
    /\ markers' = {}
    /\ out' = << >>
    /\ gen_pos' = [g \in GenIds |-> 0]
    /\ pulls' = << >>
    /\ calls' = << >>

Init == InitMesh \/ InitSingleFile

Next ==
    \/ Setup \/ StartMaterial \/ NextFace \/ ScanLoop \/ EndMaterial \/ Finish
    \/ SfEnter \/ SfFace \/ SfReturn

Spec == Init /\ [][Next]_vars

InitEncoder == InitEncodeFloat \/ InitIterencode

NextEncoder ==
    \/ EncodeFloat
    \/ EncScalar \/ EncReduce \/ EncReduced
    \/ IterEnter \/ IterItem \/ IterClose
    \/ DictEnter \/ DictSkip \/ DictKeyError \/ DictEntry \/ DictClose
    \/ EncReturn \/ Rerun

SpecEncoder == InitEncoder /\ [][NextEncoder]_vars

(***************************************************************************)
(* operator.py: ExportOperator.execute.                                    *)
(***************************************************************************)
InitExecute ==
    /\ prog = "execute"
    /\ pc = "ex_start"
    /\ console_only \in BOOLEAN
    /\ filepath \in Directories
    /\ chunks \in ChunkStreams
    /\ chunk_pos = 0
    /\ file_open = FALSE
    /\ disk \in [Directories -> {NoFile, OldFile}]
    /\ disk_entry = disk
    /\ console = None
    /\ ExporterIdle
    /\ AddonIdle
    /\ MeshIdle
    /\ SfIdle
    /\ EncIdle

\* lines 244-247: print("".join(chunks)) takes every fragment before it prints
ExConsole ==
    /\ prog = "execute" /\ pc = "ex_start" /\ console_only
    /\ chunk_pos' = chunks.len
    /\ IF chunks.raises
       THEN pc' = "raised" /\ UNCHANGED console
       ELSE pc' = "FINISHED" /\ console' = [k \in 1..chunks.len |-> k]
    /\ UNCHANGED <<addonVars, prog, exporterVars, meshVars, sfVars, encVars, console_only, filepath, chunks,
                   file_open, disk, disk_entry>>

\* lines 251-252: open(tmp, "w") creates the file at tmp or empties it
ExOpen ==
    /\ prog = "execute" /\ pc = "ex_start" /\ ~console_only
    /\ disk' = [disk EXCEPT ![tmp] = [exists |-> TRUE, content |-> << >>]]
    /\ file_open' = TRUE
    /\ pc' = "ex_write"
    /\ UNCHANGED <<addonVars, prog, exporterVars, meshVars, sfVars, encVars, console_only, filepath, chunks,
                   chunk_pos, disk_entry, console>>

\* lines 253-254: the next fragment is written to the open file
ExWrite ==
    /\ prog = "execute" /\ pc = "ex_write" /\ chunk_pos < chunks.len
    /\ disk' = [disk EXCEPT ![tmp].content = Append(@, chunk_pos + 1)]
    /\ chunk_pos' = chunk_pos + 1
    /\ UNCHANGED <<addonVars, prog, pc, exporterVars, meshVars, sfVars, encVars, console_only, filepath, chunks,
                   file_open, disk_entry, console>>

\* lines 252-254: the generator raises; the with statement closes the file
\* and the exception leaves execute
ExRaise ==
    /\ prog = "execute" /\ pc = "ex_write"
    /\ chunk_pos = chunks.len /\ chunks.raises
    /\ file_open' = FALSE
    /\ pc' = "raised"
    /\ UNCHANGED <<addonVars, prog, exporterVars, meshVars, sfVars, encVars, console_only, filepath, chunks,
                   chunk_pos, disk, disk_entry, console>>

\* shutil.copyfile(src, dst): SameFileError when both name the same file
copyfile(files, src, dst) ==
    IF src = dst THEN [raises |-> TRUE, files |-> files]
    ELSE [raises |-> FALSE, files |-> [files EXCEPT ![dst] = files[src]]]

\* lines 252-260: the generator is exhausted, the with statement closes the
\* file and the file at tmp is copied to self.filepath
ExCopy ==
    /\ prog = "execute" /\ pc = "ex_write"
    /\ chunk_pos = chunks.len /\ ~chunks.raises
    /\ file_open' = FALSE
    /\ disk' = copyfile(disk, tmp, filepath).files
    /\ pc' = IF copyfile(disk, tmp, filepath).raises THEN "raised" ELSE "FINISHED"
    /\ UNCHANGED <<addonVars, prog, exporterVars, meshVars, sfVars, encVars, console_only, filepath, chunks,
                   chunk_pos, disk_entry, console>>

(***************************************************************************)
(* A dict as the sequence of its items in insertion order.                 *)
(***************************************************************************)
DictKeys(d) == {d[k].key : k \in 1..Len(d)}

\* d[key], for a key of d
DictGet(d, key) == d[CHOOSE k \in 1..Len(d) : d[k].key = key].value

\* d[key] = value: a new key is appended, a known key keeps its place
DictSet(d, key, value) ==
    IF key \in DictKeys(d)
    THEN [k \in 1..Len(d) |-> IF d[k].key = key THEN [key |-> key, value |-> value]
                                                ELSE d[k]]
    ELSE Append(d, [key |-> key, value |-> value])

RECURSIVE Ascending(_)
\* the numbers of a set in ascending order
Ascending(S) ==
    IF S = {} THEN << >>
    ELSE LET least == CHOOSE x \in S : \A y \in S : x <= y
         IN <<least>> \o Ascending(S \ {least})

(***************************************************************************)
(* util.py: traverse_visible_objects; exporter.py: Exporter.parse.         *)
(***************************************************************************)
\* ob.children, and for None the objects of the scene without a parent
ChildrenOf(ob) == Ascending({c \in ObjectIds : ob_parent[c] = ob})

RECURSIVE traverse_visible_objects(_, _)
\* util.py 8-33: the visible (and selected) objects below start_ob, each
\* before its children; a hidden object is passed over, its children are not
traverse_visible_objects(start_ob, selected_only) ==
    LET below == Flatten([k \in 1..Len(ChildrenOf(start_ob)) |->
                    traverse_visible_objects(ChildrenOf(start_ob)[k], selected_only)])
    IN IF start_ob = 0 THEN below
       ELSE IF ob_visible[start_ob] /\ (selected_only => start_ob \in Selected)
            THEN <<start_ob>> \o below
       ELSE below

RECURSIVE _get_export_parent_ob(_, _)
\* lines 83-89: the nearest ancestor that is exported, or None
_get_export_parent_ob(ob, objects) ==
    IF ob_parent[ob] \in Range(objects) THEN ob_parent[ob]
    ELSE IF ob_parent[ob] # 0 THEN _get_export_parent_ob(ob_parent[ob], objects)
    ELSE 0

\* lines 91-99: the matrix of ob relative to its export parent (none of the
\* objects is a camera or a lamp)
_get_export_matrix(ob, parent) ==
    IF parent = 0 THEN "matrix_world"
    ELSE IF parent = ob_parent[ob] THEN "matrix_local"
    ELSE "parent.matrix_world.inverted * matrix_world"

\* ob.find_armature(): the parent when it is an armature
find_armature(ob) ==
    IF ob_parent[ob] # 0 /\ ObType(ob_parent[ob]) = "ARMATURE" THEN ob_parent[ob] ELSE 0

\* the mutant of _clear_maps: only the object map is emptied
_clear_maps_ObjectsOnly(m) == [m EXCEPT !._ob_map = << >>]

\* lines 74-81: every map is emptied
_clear_maps(m) == EmptyMaps

\* lines 172-176: _map_export_object
_map_export_object(m, ob, objects) ==
    LET parent == _get_export_parent_ob(ob, objects)
    IN [m EXCEPT !._ob_map = DictSet(@, ob, [parent |-> parent,
                                            matrix |-> _get_export_matrix(ob, parent)])]

\* lines 178-188: the geometry of ob with the default export_geometries; no
\* mesh is modified
GeometryOf(ob) == IF ObType(ob) = "MESH" THEN MeshData ELSE "None"

\* lines 190-206: the material of ob with the default export_materials; the
\* mesh has one material
MaterialOf(ob) == IF GeometryOf(ob) # "None" THEN MeshMaterial ELSE "None"

\* lines 208-216: _map_export_textures with the default export_textures
_map_export_textures(m, mat) ==
    IF mat # "None" /\ mat \notin DictKeys(m._tex_map)
    THEN [m EXCEPT !._tex_map = DictSet(@, mat, "textures")]
    ELSE m

\* lines 218-222: _map_export_armature
_map_export_armature(m, ob, objects) ==
    LET arm_ob == IF ObType(ob) = "ARMATURE" THEN ob ELSE find_armature(ob)
    IN IF arm_ob # 0 /\ arm_ob \in Range(objects)
       THEN [m EXCEPT !._arm_map = DictSet(@, ob, ArmatureData),
                      !._bone_map = DictSet(@, ArmatureData, "bones")]
       ELSE m

\* lines 224-231: _map_export_animations with the default export_animations;
\* the armature object is the one that is animated
_map_export_animations(m, ob) ==
    IF ObType(ob) = "ARMATURE"
    THEN [m EXCEPT !._act_map = DictSet(@, ArmatureAction, ob)]
    ELSE m

\* lines 285-303: one object of the loop over self.objects
MapObject(m, ob, objects) ==
    LET m1 == _map_export_object(m, ob, objects)
        m2 == [m1 EXCEPT !._geom_map = DictSet(@, ob, GeometryOf(ob))]
        m3 == [m2 EXCEPT !._mat_map = DictSet(@, ob, MaterialOf(ob))]
        m4 == _map_export_textures(m3, MaterialOf(ob))
        m5 == _map_export_armature(m4, ob, objects)
    IN _map_export_animations(m5, ob)

RECURSIVE MapObjects(_, _, _)
\* lines 285-303: the loop over self.objects from the k-th object on
MapObjects(m, objects, k) ==
    IF k > Len(objects) THEN m
    ELSE MapObjects(MapObject(m, objects[k], objects), objects, k + 1)

\* lines 259-306: one call of parse on instance i; with export_scene False
\* and without an active object self.root is None and _create_metadata
\* raises AttributeError
Parse(i, export_scene, selected_only, active_object) ==
    LET start == IF export_scene THEN 0 ELSE active_object
        objects == traverse_visible_objects(start, selected_only)
        populated == MapObjects(_clear_maps(maps), objects, 1)
    IN /\ maps' = populated
       /\ exporters' = [exporters EXCEPT ![i] =
              [root |-> start, is_scene |-> export_scene, objects |-> objects,
               out |-> IF ~export_scene /\ active_object = 0 THEN "raised" ELSE "dict"]]
       /\ maps_at_parse' = [maps_at_parse EXCEPT ![i] = populated]
       /\ last_parse' = i
       /\ last_export' = NoExport

InitExporter ==
    /\ prog = "exporter"
    /\ pc = "ap_first"
    /\ ob_parent \in ParentMaps
    /\ ob_visible \in [ObjectIds -> BOOLEAN]
    /\ maps = EmptyMaps
    /\ exporters = [i \in Instances |-> NewExporter]
    /\ maps_at_parse = [i \in Instances |-> EmptyMaps]
    /\ last_parse = ""
    /\ last_export = NoExport
    /\ eo_ob = [type |-> "EMPTY", data_type |-> ""]
    /\ eo_exporter = FALSE
    /\ ExecIdle
    /\ AddonIdle
    /\ MeshIdle
    /\ SfIdle
    /\ EncIdle

\* operator.py 202-206: the first export: a new Exporter parses
ParseFirst ==
    /\ prog = "exporter" /\ pc = "ap_first"
    /\ \E export_scene, selected_only \in BOOLEAN, active_object \in 0..MaxObjects :
          /\ export_scene => active_object = 0
          /\ Parse("A", export_scene, selected_only, active_object)
    /\ pc' = "ap_second"
    /\ UNCHANGED <<addonVars, prog, execVars, meshVars, sfVars, encVars, ob_parent, ob_visible,
                   eo_ob, eo_exporter>>

\* a later export: the same or another Exporter parses, after the first
\* parse has returned or failed and whether or not its output was encoded
ParseSecond ==
    /\ prog = "exporter" /\ pc = "ap_second"
    /\ \E i \in Instances, export_scene, selected_only \in BOOLEAN,
          active_object \in 0..MaxObjects :
          /\ export_scene => active_object = 0
          /\ Parse(i, export_scene, selected_only, active_object)
    /\ pc' = "ap_done"
    /\ UNCHANGED <<addonVars, prog, execVars, meshVars, sfVars, encVars, ob_parent, ob_visible,
                   eo_ob, eo_exporter>>

(***************************************************************************)
(* scene.py: export_scene; object.py: export_object, as Exporter.export    *)
(* calls them when the encoder comes to the scene or to an object.         *)
(***************************************************************************)
\* scene.py 64-67: the objects whose parent is not exported (the world has
\* no ambient light)
SceneChildren(i) ==
    SelectSeq(exporters[i].objects, LAMBDA o : ob_parent[o] \notin Range(exporters[i].objects))

\* object.py 75-79: the objects mapped to ob as their export parent
ObjectChildren(ob) ==
    LET items == maps._ob_map
        hits == {k \in 1..Len(items) : items[k].value.parent = ob}
    IN [n \in 1..Cardinality(hits) |-> items[Ascending(hits)[n]].key]

\* object.py 47-63 and lamp.py, camera.py: the three.js type of the dict the
\* exporter of the object's type returns, "" when it raises TypeError
ThreeType(type, data_type) ==
    CASE type = "EMPTY" -> "Object3D"
      [] type = "MESH" -> "Mesh"
      [] type = "ARMATURE" -> "Group"
      [] type = "LAMP" /\ data_type = "HEMI" -> "HemisphereLight"
      [] type = "LAMP" /\ data_type = "POINT" -> "PointLight"
      [] type = "LAMP" /\ data_type = "SUN" -> "DirectionalLight"
      [] type = "LAMP" /\ data_type = "SPOT" -> "SpotLight"
      [] type = "CAMERA" /\ data_type = "PERSP" -> "PerspectiveCamera"
      [] OTHER -> ""

\* util.py 48: def get_custom_props(ob) takes no keyword prefix
CustomPropsAccepts(keywords) == keywords \subseteq {"ob"}

\* object.py 33-89: export_object(ob, exporter): the exception that leaves
\* it ("" when it returns) and the uuid, name, type and children of out
export_object(type, data_type, has_exporter, mapped, children) ==
    LET failed(e) == [raises |-> e, type |-> "", children |-> << >>]
    IN IF type = "CAMERA" /\ ~has_exporter THEN failed("AttributeError")
       ELSE IF ThreeType(type, data_type) = "" THEN failed("TypeError")
       ELSE IF has_exporter /\ ~mapped THEN failed("KeyError")
       ELSE IF ~CustomPropsAccepts({"prefix"}) THEN failed("TypeError")
       ELSE [raises |-> "", type |-> ThreeType(type, data_type),
             children |-> IF has_exporter THEN children ELSE << >>]

\* exporter.py 329-330: the encoder of instance i comes to the scene
ExportScene ==
    /\ prog = "exporter" /\ pc \in {"ap_second", "ap_done"}
    /\ \E i \in Instances :
          /\ exporters[i].out = "dict" /\ exporters[i].is_scene
          /\ last_export' = [by |-> i, ob |-> 0, raises |-> "", type |-> "Scene",
                             children |-> SceneChildren(i)]
    /\ UNCHANGED <<addonVars, prog, pc, execVars, meshVars, sfVars, encVars, ob_parent, ob_visible,
                   maps, exporters, maps_at_parse, last_parse, eo_ob, eo_exporter>>

\* exporter.py 332-333: the encoder of instance i comes to an object: the
\* root object or an object of self.objects
ExportObject ==
    /\ prog = "exporter" /\ pc \in {"ap_second", "ap_done"}
    /\ \E i \in Instances, ob \in ObjectIds :
          /\ exporters[i].out = "dict"
          /\ ob \in Range(exporters[i].objects) \/ ob = exporters[i].root
          /\ last_export' =
                [by |-> i, ob |-> ob] @@
                export_object(ObType(ob), "", TRUE, ob \in DictKeys(maps._ob_map),
                              ObjectChildren(ob))
    /\ UNCHANGED <<addonVars, prog, pc, execVars, meshVars, sfVars, encVars, ob_parent, ob_visible,
                   maps, exporters, maps_at_parse, last_parse, eo_ob, eo_exporter>>

\* the objects export_object may be given: ob.type and, for a lamp or a
\* camera, ob.data.type
ObjectKinds ==
    {[type |-> t, data_type |-> ""] :
        t \in {"EMPTY", "MESH", "ARMATURE", "CURVE", "SPEAKER"}}
    \cup {[type |-> "LAMP", data_type |-> d] : d \in {"POINT", "SUN", "SPOT", "HEMI", "AREA"}}
    \cup {[type |-> "CAMERA", data_type |-> d] : d \in {"PERSP", "ORTHO", "PANO"}}

InitExportObject ==
    /\ prog = "export_object"
    /\ pc = "eo_start"
    /\ eo_ob \in ObjectKinds
    /\ eo_exporter \in BOOLEAN
    /\ ob_parent = [o \in ObjectIds |-> 0]
    /\ ob_visible = [o \in ObjectIds |-> TRUE]
    /\ maps = EmptyMaps
    /\ exporters = [i \in Instances |-> NewExporter]
    /\ maps_at_parse = [i \in Instances |-> EmptyMaps]
    /\ last_parse = ""
    /\ last_export = NoExport
    /\ ExecIdle
    /\ AddonIdle
    /\ MeshIdle
    /\ SfIdle
    /\ EncIdle

\* object.py 33-89: one call of export_object, without an exporter or with
\* the exporter that has mapped the object
ExportObjectCall ==
    /\ prog = "export_object" /\ pc = "eo_start"
    /\ last_export' = [by |-> "", ob |-> 0] @@
                      export_object(eo_ob.type, eo_ob.data_type, eo_exporter, TRUE, << >>)
    /\ pc' = "eo_done"
    /\ UNCHANGED <<addonVars, prog, execVars, meshVars, sfVars, encVars, ob_parent, ob_visible,
                   maps, exporters, maps_at_parse, last_parse, eo_ob, eo_exporter>>

\* ---------------------------------------------------------------------------
\* scripts/addons/io_mesh_threejs_object/export.py: export(context, **props)
\* ---------------------------------------------------------------------------

\* what a scene object is: a mesh, a sun/point/spot lamp, a lamp of another
\* kind ("AREA"), or an empty
AddonKinds == {"MESH", "LAMP", "AREA", "EMPTY"}

\* ob.type of an object of the scene
AxType(kind) == IF kind = "AREA" THEN "LAMP" ELSE kind

\* the values of the object_types property the runs choose from
ObjectTypeSets == {{"MESH", "LAMP"}, {"MESH", "EMPTY"}}

\* ob.parent: object 2 is a child of object 1, the others have no parent
AxParentOf == [o \in ObjectIds |-> IF o = 2 THEN 1 ELSE 0]

\* the ambient light among the root object's children
Ambient == MaxObjects + 1

\* the one material of the scene's meshes
AxMaterial == 1

\* export.py 74-82: every module-level map and the root's children are cleared;
\* the variant clears the maps and leaves the root's children
_clear_globals_Maps(g) == [k \in DOMAIN g |-> IF k = "children" THEN g[k] ELSE {}]

_clear_globals(g) == [k \in DOMAIN g |-> {}]

\* export.py 112-118: deselect all, then select the objects of the list
_select_objects(obs) == {} \cup obs

\* export.py 264-288: the objects export() visits, filtered by type and,
\* with selected_only, by selection
_export_objects(scene, selection, props) ==
    Ascending({o \in (IF props.selected_only THEN selection ELSE ObjectIds) :
                  AxType(scene[o]) \in props.object_types})

\* export.py 160-184 with 585/656: the exported object is appended to its
\* parent's children; the root's children get it when the parent was not exported
AppendChild(g, o) ==
    IF AxParentOf[o] \in g["_g_objects"]
    THEN g
    ELSE [g EXCEPT !["children"] = @ \cup {o}]

\* export.py 548-589 with 395-545: a mesh enters the materials, the geometries,
\* the shared geometries unless it is animated, the children and the objects
_export_mesh(g, o, props) ==
    LET g1 == [g EXCEPT !["_g_materials"] = @ \cup {AxMaterial},
                        !["_g_geometries"] = @ \cup {o},
                        !["_g_shared_geometries"] =
                            IF props.morph_animations THEN @ ELSE @ \cup {o}]
        g2 == AppendChild(g1, o)
    IN  [g2 EXCEPT !["_g_objects"] = @ \cup {o}]

\* export.py 592-660: a supported lamp enters the children and the objects
_export_lamp(g, o) ==
    LET g1 == AppendChild(g, o)
    IN  [g1 EXCEPT !["_g_objects"] = @ \cup {o}]

\* export.py 663-678: the ambient light is appended to the root's children
_export_ambient(g) == [g EXCEPT !["children"] = @ \cup {Ambient}]

\* a call of export() on a scene with a selection and a current frame
InitAddonExport ==
    /\ prog = "addon_export"
    /\ pc = "ax_entry"
    /\ MeshIdle
    /\ SfIdle
    /\ EncIdle
    /\ ExecIdle
    /\ ExporterIdle
    /\ globals = NewGlobals
    /\ selected_objects \in SUBSET ObjectIds
    /\ frame_current \in {FrameRange[1], FrameRange[Len(FrameRange)]}
    /\ sel_obs = {}
    /\ sel_frame = 0
    /\ ax_scene \in [ObjectIds -> AddonKinds]
    /\ ax_props \in [object_types : ObjectTypeSets, selected_only : BOOLEAN,
                     export_ambient : BOOLEAN, morph_animations : BOOLEAN]
    /\ ax_queue = << >>
    /\ ax_ob = 0
    /\ ax_raised = ""
    /\ ax_before = [globals |-> NewGlobals, frame |-> 0]
    /\ ax_written = FALSE

\* export.py 684-706: the selection and the frame are recorded, the try block
\* is entered
AxEnter ==
    /\ prog = "addon_export"
    /\ pc = "ax_entry"
    /\ sel_obs' = selected_objects
    /\ sel_frame' = frame_current
    /\ ax_queue' = _export_objects(ax_scene, selected_objects, ax_props)
    /\ ax_ob' = 0
    /\ ax_raised' = ""
    /\ ax_written' = FALSE
    /\ pc' = "ax_objects"
    /\ UNCHANGED <<prog, meshVars, sfVars, encVars, execVars, exporterVars, globals,
                   selected_objects, frame_current, ax_scene, ax_props, ax_before>>

\* export.py 709-716: one round of the loop over the export objects; a mesh
\* with morph animations leaves the scene on the last frame of the range
\* (338-392), a lamp of an unsupported kind raises (654)
AxObject ==
    /\ prog = "addon_export"
    /\ pc = "ax_objects"
    /\ ax_queue # << >>
    /\ LET o == Head(ax_queue)
           kind == ax_scene[o]
       IN  /\ ax_ob' = o
           /\ ax_queue' = Tail(ax_queue)
           /\ globals' = CASE kind = "MESH" -> _export_mesh(globals, o, ax_props)
                           [] kind = "LAMP" -> _export_lamp(globals, o)
                           [] OTHER -> globals
           /\ frame_current' = IF kind = "MESH" /\ ax_props.morph_animations
                               THEN FrameRange[Len(FrameRange)]
                               ELSE frame_current
           /\ ax_raised' = IF kind = "AREA" THEN "NotImplementedError" ELSE ""
           /\ pc' = IF kind = "AREA" THEN "ax_finally" ELSE "ax_objects"
    /\ UNCHANGED <<prog, meshVars, sfVars, encVars, execVars, exporterVars,
                   selected_objects, sel_obs, sel_frame, ax_scene, ax_props, ax_before,
                   ax_written>>

\* export.py 718-721: the ambient light; its print reads the loop variable,
\* which is unbound when the loop had no round
AxAmbient ==
    /\ prog = "addon_export"
    /\ pc = "ax_objects"
    /\ ax_queue = << >>
    /\ IF "LAMP" \in ax_props.object_types /\ ax_props.export_ambient
       THEN IF ax_ob = 0
            THEN /\ ax_raised' = "UnboundLocalError"
                 /\ pc' = "ax_finally"
                 /\ UNCHANGED globals
            ELSE /\ globals' = _export_ambient(globals)
                 /\ pc' = "ax_write"
                 /\ UNCHANGED ax_raised
       ELSE /\ pc' = "ax_write"
            /\ UNCHANGED <<globals, ax_raised>>
    /\ UNCHANGED <<prog, meshVars, sfVars, encVars, execVars, exporterVars,
                   selected_objects, frame_current, sel_obs, sel_frame, ax_scene, ax_props,
                   ax_queue, ax_ob, ax_before, ax_written>>

\* export.py 723-745: the output is made and written; opening or writing the
\* file can fail
AxWrite ==
    /\ prog = "addon_export"
    /\ pc = "ax_write"
    /\ \E fails \in BOOLEAN :
          /\ ax_raised' = IF fails THEN "OSError" ELSE ""
          /\ ax_written' = ~fails
    /\ pc' = "ax_finally"
    /\ UNCHANGED <<prog, meshVars, sfVars, encVars, execVars, exporterVars, globals,
                   selected_objects, frame_current, sel_obs, sel_frame, ax_scene, ax_props,
                   ax_queue, ax_ob, ax_before>>

\* export.py 747-755: the finally block clears the globals, selects the
\* recorded objects and sets the recorded frame
AxFinally ==
    /\ prog = "addon_export"
    /\ pc = "ax_finally"
    /\ ax_before' = [globals |-> globals, frame |-> frame_current]
    /\ globals' = _clear_globals(globals)
    /\ selected_objects' = _select_objects(sel_obs)
    /\ frame_current' = sel_frame
    /\ pc' = IF ax_raised = "" THEN "ax_done" ELSE "ax_raised"
    /\ UNCHANGED <<prog, meshVars, sfVars, encVars, execVars, exporterVars, sel_obs,
                   sel_frame, ax_scene, ax_props, ax_queue, ax_ob, ax_raised, ax_written>>

\* export() is called again in the same session
AxAgain ==
    /\ prog = "addon_export"
    /\ pc \in {"ax_done", "ax_raised"}
    /\ pc' = "ax_entry"
    /\ UNCHANGED <<prog, meshVars, sfVars, encVars, execVars, exporterVars, globals,
                   selected_objects, frame_current, sel_obs, sel_frame, ax_scene, ax_props, ax_queue, ax_ob,
                   ax_raised, ax_before, ax_written>>

InitApp == InitExecute \/ InitExporter \/ InitExportObject \/ InitAddonExport

NextApp ==
    \/ ExConsole \/ ExOpen \/ ExWrite \/ ExRaise \/ ExCopy
    \/ ParseFirst \/ ParseSecond \/ ExportScene \/ ExportObject
    \/ ExportObjectCall
    \/ AxEnter \/ AxObject \/ AxAmbient \/ AxWrite \/ AxFinally \/ AxAgain

SpecApp == InitApp /\ [][NextApp]_vars

\* mesh.py 240-274: a later export comes to the mesh and calls export_mesh
\* again; the call makes its locals anew
ExportMeshAgain ==
    /\ prog = "export_mesh" /\ pc = "done"
    /\ pc' = "start"
    /\ attributes' = << >>
    /\ arrays' = << >>
    /\ mat_index' = 0
    /\ group_start' = 0
    /\ layers' = NoLayers
    /\ face_pos' = 0
    /\ face' = << >>
    /\ loop_pos' = 0
    /\ vertex_map' = << >>
    /\ index_array' = << >>
    /\ groups' = << >>
    /\ min_vertex' = InitialCorner
    /\ max_vertex' = InitialCorner
    /\ bounding_sphere' = NoSphere
    /\ scanned' = << >>
    /\ UNCHANGED <<appVars, encVars, sfVars, prog, mesh, materials, arm, faces>>

\* one export after another: parse, the meshes and the encoder
InitExports == InitExporter \/ InitMesh \/ InitIterencode

NextExports ==
    \/ ParseFirst \/ ParseSecond \/ ExportScene \/ ExportObject
    \/ Setup \/ StartMaterial \/ NextFace \/ ScanLoop \/ EndMaterial \/ Finish
    \/ ExportMeshAgain
    \/ EncScalar \/ EncReduce \/ EncReduced
    \/ IterEnter \/ IterItem \/ IterClose
    \/ DictEnter \/ DictSkip \/ DictKeyError \/ DictEntry \/ DictClose
    \/ EncReturn \/ Rerun

SpecExports == InitExports /\ [][NextExports]_vars

(***************************************************************************)
(* Properties of export_mesh and parse_mesh_faces.                         *)
(***************************************************************************)
InExportMesh == prog = "export_mesh"

MeshDone == prog = "export_mesh" /\ pc = "done"

\* the distinct attribute tuples among the scanned loops
DistinctData == {scanned[i].data : i \in 1..Len(scanned)}

\* the entries of vertex_map that carry a given index
EntriesWithIndex(n) == {e \in 1..Len(vertex_map) : vertex_map[e].index = n}

\* the entries of vertex_map that carry a given key
EntriesWithKey(k) == {e \in 1..Len(vertex_map) : vertex_map[e].key = k}

RECURSIVE FirstOccurrences(_, _)
\* the tuples of a sequence of scanned loops in order of first occurrence
FirstOccurrences(seq, seen) ==
    IF seq = << >> THEN << >>
    ELSE IF Head(seq).data \in seen THEN FirstOccurrences(Tail(seq), seen)
    ELSE <<Head(seq).data>> \o FirstOccurrences(Tail(seq), seen \cup {Head(seq).data})

\* the number of faces of the mesh with a given material_index
FacesOfMaterial(m) == Cardinality({j \in 1..Len(faces) : faces[j] = m})

\* C1: the number of vertex_map entries is the number of distinct attribute
\* tuples among the scanned loops, index_array has one entry per scanned loop in
\* scan order, and the key whose index is index_array[i] is the tuple of loop i.
C1_DedupCorrect ==
    InExportMesh =>
        /\ Len(vertex_map) = Cardinality(DistinctData)
        /\ Len(index_array) = Len(scanned)
        /\ \A i \in 1..Len(scanned) :
              /\ EntriesWithIndex(index_array[i]) # {}
              /\ \A e \in EntriesWithIndex(index_array[i]) :
                    vertex_map[e].key = scanned[i].data

\* C1 witness: a finished scan of two faces (six loops) with four distinct tuples
C1_Witness ==
    MeshDone /\ Len(scanned) = 6 /\ Cardinality(DistinctData) = 4

\* C2, state part: the indices of vertex_map are 0..len-1 in order of first
\* occurrence, a repeated tuple has the index of its first occurrence and every
\* value of index_array is below len(vertex_map).
C2_Indices ==
    InExportMesh =>
        /\ \A e \in 1..Len(vertex_map) : vertex_map[e].index = e - 1
        /\ [e \in 1..Len(vertex_map) |-> vertex_map[e].key]
              = FirstOccurrences(scanned, {})
        /\ \A i \in 1..Len(index_array) :
              /\ index_array[i] >= 0
              /\ index_array[i] < Len(vertex_map)
              /\ \A j \in 1..i : scanned[j].data = scanned[i].data
                                    => index_array[j] = index_array[i]

\* C2, step part: during the scan no entry of vertex_map is removed or
\* re-numbered and no value of index_array changes.
C2_Step ==
    (InExportMesh /\ pc # "done") =>
        /\ Len(vertex_map') >= Len(vertex_map)
        /\ \A e \in 1..Len(vertex_map) : vertex_map'[e] = vertex_map[e]
        /\ Len(index_array') >= Len(index_array)
        /\ \A i \in 1..Len(index_array) : index_array'[i] = index_array[i]

\* C2: at every step of the dedup scan the assigned indices are exactly
\* 0..len(vertex_map)-1 in order of first occurrence, a tuple seen again reuses
\* its first index, no key is removed or re-numbered, and every value in
\* index_array is below len(vertex_map).
C2_SequentialIndices == [] C2_Indices /\ [][C2_Step]_vars

\* C2 witness: in the middle of a scan a tuple is met again after other tuples
\* were given larger indices
C2_Witness ==
    /\ InExportMesh /\ pc = "loops"
    /\ Len(vertex_map) >= 4
    /\ Len(index_array) > 3
    /\ index_array[Len(index_array)] + 2 < Len(vertex_map)

\* C3: after export_mesh the ranges [start, start+count) of the groups, in list
\* order, are disjoint, contiguous and cover [0, len(index_array)), and
\* materialIndex is non-decreasing along the list.
C3_GroupPartition ==
    MeshDone =>
        /\ Len(groups) >= 1
        /\ groups[1].start = 0
        /\ \A k \in 1..Len(groups) : groups[k].count >= 0
        /\ \A k \in 1..(Len(groups) - 1) :
              /\ groups[k + 1].start = groups[k].start + groups[k].count
              /\ groups[k].materialIndex <= groups[k + 1].materialIndex
        /\ groups[Len(groups)].start + groups[Len(groups)].count = Len(index_array)

\* C3 witness: two groups that both hold faces
C3_Witness ==
    /\ MeshDone /\ Len(groups) = 2
    /\ groups[1].count > 0 /\ groups[2].count > 0

\* the index triples the claim lists for a face with the given corner indices
ClaimedTriples(indices) ==
    IF Len(indices) = 3 THEN <<indices[1], indices[2], indices[3]>>
    ELSE <<indices[1], indices[2], indices[3], indices[3], indices[4], indices[1]>>

\* C4: the index stream length is a multiple of 3: in export_mesh every scanned
\* face appends exactly 3 indices; in parse_mesh_faces a 3-vertex face appends
\* one triple and a 4-vertex face the triples (i0,i1,i2) and (i2,i3,i0).
C4_MultipleOfThree ==
    /\ (InExportMesh /\ pc # "loops") => Len(index_array) % 3 = 0
    /\ (InExportMesh /\ pc = "loops") =>
          Len(index_array) % 3 = loop_pos /\ Len(face) = 3
    /\ prog = "parse_mesh_faces" =>
          /\ Len(sf_geometry.index) % 3 = 0
          /\ sf_geometry.index =
                Flatten([k \in 1..Len(sf_history) |->
                            ClaimedTriples(sf_history[k].indices)])

\* C4 witness: parse_mesh_faces has processed a quad and a triangle
C4_Witness ==
    /\ prog = "parse_mesh_faces" /\ pc = "done"
    /\ \E k \in 1..Len(sf_history) : Len(sf_history[k].indices) = 4
    /\ \E k \in 1..Len(sf_history) : Len(sf_history[k].indices) = 3

\* C5: deduplication is geometry-global: two loops with identical attribute
\* tuples in faces of different materials get the same index and the tuple has
\* a single vertex_map entry.
C5_GlobalDedup ==
    InExportMesh =>
        \A i, j \in 1..Len(scanned) :
            (scanned[i].data = scanned[j].data /\ scanned[i].mat # scanned[j].mat) =>
                /\ index_array[i] = index_array[j]
                /\ Cardinality(EntriesWithKey(scanned[i].data)) = 1

\* C5 witness: a finished scan in which the same tuple occurs under two materials
C5_Witness ==
    /\ MeshDone
    /\ \E i, j \in 1..Len(scanned) :
          scanned[i].data = scanned[j].data /\ scanned[i].mat # scanned[j].mat

\* C6 as stated: a material without faces produces no group: every group has
\* count > 0 and a group exists for a material exactly when a face with that
\* material index was scanned.
C6_NoEmptyGroup ==
    (MeshDone /\ materials # << >>) =>
        /\ \A k \in 1..Len(groups) : groups[k].count > 0
        /\ \A m \in 0..(Len(MaterialsOrNone(materials)) - 1) :
              (\E k \in 1..Len(groups) : groups[k].materialIndex = m)
                  <=> (\E i \in 1..Len(scanned) : scanned[i].mat = m)

\* C6 as amended: every material of the loop (every slot, or the one implicit
\* material of a mesh without slots) produces exactly one group, in slot order,
\* whose count is three times the number of its faces, hence 0 when it has none.
C6_OneGroupPerMaterial ==
    MeshDone =>
        /\ Len(groups) = Len(MaterialsOrNone(materials))
        /\ \A k \in 1..Len(groups) :
              /\ groups[k].materialIndex = k - 1
              /\ groups[k].count = 3 * FacesOfMaterial(k - 1)
              /\ groups[k].count =
                    Cardinality({i \in 1..Len(scanned) : scanned[i].mat = k - 1})

\* C6 witness: a finished geometry with a group of count 0 next to one with faces
C6_Witness ==
    /\ MeshDone
    /\ \E k \in 1..Len(groups) : groups[k].count = 0
    /\ \E k \in 1..Len(groups) : groups[k].count > 0

\* C7 as stated: a mesh with zero material slots gives exactly one group
\* {start 0, count len(index_array), materialIndex 0} and every face of the mesh
\* contributes its loops to index_array.
C7_ZeroMaterials ==
    (MeshDone /\ materials = << >>) =>
        /\ groups = <<[start |-> 0, count |-> Len(index_array), materialIndex |-> 0]>>
        /\ Len(index_array) = 3 * Len(faces)

\* the component-wise minimum and maximum over the positions of the scanned loops
PositionsOfGeometry == {scanned[i].data[1] : i \in 1..Len(scanned)}

LeastOf(S) == CHOOSE x \in S : \A y \in S : x <= y

GreatestOf(S) == CHOOSE x \in S : \A y \in S : x >= y

MinOfPositions == [a \in 1..3 |-> LeastOf({p[a] : p \in PositionsOfGeometry})]

MaxOfPositions == [a \in 1..3 |-> GreatestOf({p[a] : p \in PositionsOfGeometry})]

\* C8 as stated: for a non-empty set of positions, center is the midpoint of the
\* component-wise minimum and maximum over the geometry's positions only and
\* radius is the distance from center to the maximum corner (in half units:
\* center = min + max, radius_sq = sum of (2 max - center)^2).
C8_BoundingSphere ==
    (MeshDone /\ scanned # << >>) =>
        /\ bounding_sphere.set
        /\ bounding_sphere.center = [a \in 1..3 |-> MinOfPositions[a] + MaxOfPositions[a]]
        /\ bounding_sphere.radius_sq =
              (MaxOfPositions[1] - MinOfPositions[1]) * (MaxOfPositions[1] - MinOfPositions[1])
              + (MaxOfPositions[2] - MinOfPositions[2]) * (MaxOfPositions[2] - MinOfPositions[2])
              + (MaxOfPositions[3] - MinOfPositions[3]) * (MaxOfPositions[3] - MinOfPositions[3])

\* the item size the claim gives for an attribute
ClaimedItemSize(name) ==
    CASE name \in {"position", "normal", "color"} -> 3
      [] name \in {"uv", "uv2"} -> 2
      [] name \in {"skinIndex", "skinWeight"} -> 4

\* items k*size+1 .. k*size+size of an array
ItemAt(array, size, k) == SubSeq(array, k * size + 1, k * size + size)

\* C9: the array of every attribute present is the column of that attribute
\* over the unique vertices in index order, flattened: its length is itemSize
\* times the number of unique vertices, itemSize is 3 for position/normal/color,
\* 2 for uv/uv2 and 4 for skinIndex/skinWeight, and item k belongs to the vertex
\* whose index in index_array is k.
C9_AttributeArrays ==
    MeshDone =>
        \A a \in 1..Len(attributes) :
            /\ attributes[a].itemSize = ClaimedItemSize(attributes[a].name)
            /\ Len(arrays[a]) = attributes[a].itemSize * Cardinality(DistinctData)
            /\ \A i \in 1..Len(scanned) :
                  ItemAt(arrays[a], attributes[a].itemSize, index_array[i])
                      = scanned[i].data[OffsetOf(attributes[a].name) + 1]

\* C9 witness: a finished geometry with uv, color and skin attributes in which
\* at least four unique vertices are shared by more loops
C9_Witness ==
    /\ MeshDone
    /\ HasAttr(attributes, "uv") /\ HasAttr(attributes, "color")
    /\ HasAttr(attributes, "skinWeight")
    /\ Len(vertex_map) >= 4 /\ Len(scanned) > Len(vertex_map)

\* the optional components of a key: tuple position -> attribute name
OptionalAttrs == <<"", "", "uv", "uv2", "color", "skinIndex", "skinWeight">>

\* C10, state part: every key of vertex_map has a non-null uv, uv2, color,
\* skinIndex, skinWeight exactly when the attribute of that name is in the
\* attributes mapping, and no loop is scanned before the mapping is decided.
C10_KeysCarryAttrs ==
    InExportMesh =>
        /\ pc = "start" => scanned = << >> /\ vertex_map = << >>
        /\ \A e \in 1..Len(vertex_map) : \A c \in 3..7 :
              (vertex_map[e].key[c] # None) <=> HasAttr(attributes, OptionalAttrs[c])

\* C10, step part: once decided, the attributes mapping keeps its names
C10_Step == (InExportMesh /\ pc # "start") => attributes' = attributes

\* C10: attribute presence is decided once per geometry before any vertex is
\* scanned and every key of vertex_map carries exactly that subset of optional
\* attributes, for every material of the geometry.
C10_UniformAttributes == [] C10_KeysCarryAttrs /\ [][C10_Step]_vars

\* C10 witness: under the second material a key got the default uv because the
\* material has no uv layer to read
C10_Witness ==
    /\ InExportMesh /\ pc = "loops" /\ mat_index = 1 /\ loop_pos > 0
    /\ HasAttr(attributes, "uv") /\ layers.uv_layer = 0 - 1
    /\ scanned[Len(scanned)].data[3] = DEFAULT_UV

(***************************************************************************)
(* Properties of the encoder.                                              *)
(***************************************************************************)
\* a call of encode_float has returned
FloatDone == prog = "encode_float" /\ pc = "done"

\* the argument of encode_float as a signed count of units of 10^-FloatDigits
SignedOf(f) == IF f.neg THEN 0 - f.mag ELSE f.mag

Abs(n) == IF n < 0 THEN 0 - n ELSE n

IsDigits(s) == \A i \in 1..Len(s) : s[i] \in Range(DigitChars)

RECURSIVE NatOf(_)
\* the natural number written by a sequence of digits
NatOf(s) == IF s = << >> THEN 0
            ELSE 10 * NatOf(SubSeq(s, 1, Len(s) - 1))
                 + (CHOOSE d \in 0..9 : DigitChars[d + 1] = s[Len(s)])

\* a text without its leading minus sign
Unsigned(s) == IF s # << >> /\ s[1] = "-" THEN Tail(s) ELSE s

\* the position of the first decimal point of a text, 0 when there is none
PointOf(s) == IF \E i \in 1..Len(s) : s[i] = "."
              THEN CHOOSE i \in 1..Len(s) : s[i] = "." /\ \A j \in 1..(i - 1) : s[j] # "."
              ELSE 0

IntegerPart(s) == IF PointOf(s) = 0 THEN s ELSE SubSeq(s, 1, PointOf(s) - 1)

FractionPart(s) == IF PointOf(s) = 0 THEN << >> ELSE SubSeq(s, PointOf(s) + 1, Len(s))

\* the JSON grammar of a number without exponent: -? (0 | [1-9][0-9]*) (. [0-9]+)?
IsJsonNumber(s) ==
    LET b == Unsigned(s)
    IN /\ IntegerPart(b) # << >>
       /\ IsDigits(IntegerPart(b))
       /\ Len(IntegerPart(b)) > 1 => IntegerPart(b)[1] # "0"
       /\ PointOf(b) # 0 => FractionPart(b) # << >>
       /\ IsDigits(FractionPart(b))

\* the value a JSON parser reads from a number text, in units of 10^-FloatDigits
ValueOf(s) ==
    LET b == Unsigned(s)
        mag == NatOf(IntegerPart(b)) * Pow10(FloatDigits)
               + NatOf(FractionPart(b)) * Pow10(FloatDigits - Len(FractionPart(b)))
    IN IF s # << >> /\ s[1] = "-" THEN 0 - mag ELSE mag

\* a text that writes zero with a minus sign
IsNegativeZero(s) ==
    s # << >> /\ s[1] = "-" /\ \A i \in 2..Len(s) : s[i] \in {"0", "."}

\* text is full with its trailing zeros and then its trailing point removed
IsStripped(text, full) ==
    \E a \in 0..1, b \in 0..Len(full) :
        /\ full = text \o [i \in 1..a |-> "."] \o [i \in 1..b |-> "0"]
        /\ text # << >> => text[Len(text)] # "."
        /\ (a = 0 /\ text # << >>) => text[Len(text)] # "0"

\* the fixed-point texts with exactly p decimals that text may be stripped from
FullTexts(text, p) ==
    {text \o [i \in 1..a |-> "."] \o [i \in 1..b |-> "0"] :
        a \in 0..1, b \in 0..(FloatDigits + p + 3)}

\* s is a decimal with exactly p decimals, and no point when p = 0
IsFixed(s, p) ==
    /\ IsJsonNumber(s)
    /\ Len(FractionPart(Unsigned(s))) = p

\* encode_float of the examples: 1.0 at 3, 1.2345 at 2, 1.250 at 3, -0.00001 at 3
C16_Examples ==
    /\ (ef_f = Float(Pow10(FloatDigits)) /\ float_precision = 3) => ef_text = <<"1">>
    /\ (ef_f = Float(12345 * Pow10(FloatDigits - 4)) /\ float_precision = 2)
           => ef_text = <<"1", ".", "2", "3">>
    /\ (ef_f = Float(125 * Pow10(FloatDigits - 2)) /\ float_precision = 3)
           => ef_text = <<"1", ".", "2", "5">>
    /\ (ef_f = Float(0 - 1) /\ float_precision = 3) => ef_text = <<"0">>

\* the text of encode_float is the nearest decimal with float_precision
\* decimals, less its trailing zeros and then a trailing point, and it does not
\* write zero with a minus sign
C16_FloatText ==
    FloatDone =>
        /\ C16_Examples
        /\ ~IsNegativeZero(ef_text)
        /\ \E full \in FullTexts(ef_text, float_precision) :
              /\ IsFixed(full, float_precision)
              /\ IsStripped(ef_text, full)
              /\ 2 * Abs(ValueOf(full) - SignedOf(ef_f))
                     <= Pow10(FloatDigits - float_precision)

\* C17: for every finite float and every float_precision the export operator
\* allows, 0 included, the text encode_float returns is a non-empty, valid JSON
\* number that parses back to within 10^-float_precision of the value.
C17_ValidNumber ==
    FloatDone =>
        /\ ef_text # << >>
        /\ IsJsonNumber(ef_text)
        /\ Abs(ValueOf(ef_text) - SignedOf(ef_f)) <= Pow10(FloatDigits - float_precision)

\* a call of iterencode has returned without an error
EncodeDone == prog = "iterencode" /\ pc = "done"

\* the loop of _iterencode_dict has come to an entry
AtEntry ==
    Running /\ Top.fn = "dict" /\ Top.pc = "loop"
            /\ Top.pos < Len(ObjectAt(Top.node).entries)

\* the number of items a sequence has still to hand out
ItemsLeft(id) ==
    IF Kind(id) = "gen" THEN Len(ObjectAt(id).items) - gen_pos[id]
    ELSE Len(ObjectAt(id).items)

\* null, a sequence (fixed or lazy) without items, or a mapping without entries
IsEmptyValue(id) ==
    \/ Kind(id) = "null"
    \/ Kind(id) \in {"list", "gen"} /\ ItemsLeft(id) = 0
    \/ Kind(id) = "dict" /\ ObjectAt(id).entries = << >>

\* false, 0 or 0.0
IsFalseOrZero(id) == Kind(id) \in {"bool", "int", "float"} /\ ObjectAt(id).val = 0

\* the fragments the step has yielded
Yielded == SubSeq(out', Len(out) + 1, Len(out'))

\* the keys written to the output, when no string is written as a value
KeysWritten == {f[2] : f \in {g \in Range(out) : Len(g) = 3 /\ g[1] = "\""}}

C11_Step ==
    (AtEntry /\ skip_empty) =>
        /\ IsEmptyValue(NextEntry.value) =>
               out' = out /\ stack' = Replace([Top EXCEPT !.pos = @ + 1])
        /\ IsFalseOrZero(NextEntry.value) =>
               encode_str(KeyText(NextEntry)) \in Range(Yielded)

C11_Example ==
    (EncodeDone /\ skip_empty /\ root = 20) => KeysWritten = {"c", "d"}

\* C11: with skip_empty, an entry whose value is null, an empty sequence or an
\* empty mapping yields nothing, neither key nor value, and an entry whose
\* value is false, 0 or 0.0 is always written; the mapping
\* {"a": null, "b": [], "c": 0, "d": false} is written with exactly the keys
\* c and d.
C11_EmptyOmitted == [][C11_Step]_vars /\ []C11_Example

\* the objects iterencode descends into from an object
Children(id) ==
    Range(ObjectAt(id).items) \cup {e.value : e \in Range(ObjectAt(id).entries)}
    \cup (IF Kind(id) = "obj" /\ ~DefaultOf(id).raises THEN {DefaultOf(id).value} ELSE {})

RECURSIVE Descendants(_)
\* the objects reached from a set of objects
Descendants(S) ==
    LET T == S \cup UNION {Children(x) : x \in S}
    IN IF T = S THEN S ELSE Descendants(T)

\* a non-empty mapping or sequence that has itself as a descendant
ContainsItself(id) ==
    Kind(id) \in {"dict", "list", "gen"} /\ id \in Descendants(Children(id))

\* the argument of iterencode holds a container that contains itself
CyclicTree == \E x \in Descendants({root}) : ContainsItself(x)

\* the object on top is about to be entered while a generator below it on the
\* stack has it open
BackEdge ==
    /\ Running /\ Top.pc = "enter" /\ ~IsScalar(Top.node) /\ Truthy(Top.node)
    /\ \E i \in 1..(Len(stack) - 1) : stack[i].node = Top.node /\ stack[i].pc # "enter"

\* no object is open twice on the stack
NoNestedReentry ==
    \A i, j \in 1..Len(stack) :
        (i < j /\ stack[i].node = stack[j].node) => stack[j].pc = "enter"

C12_Step == BackEdge => (pc' = "ValueError" /\ out' = out)

\* default reduces every opaque object of the tree
Reducible == \A x \in Descendants({root}) : Kind(x) = "obj" => ~DefaultOf(x).raises

C12_End ==
    (prog = "iterencode" /\ CyclicTree) =>
        /\ NoNestedReentry
        /\ pc # "done"
        /\ (Reducible /\ pc # "running") => pc = "ValueError"

OpenOnPath == {stack[i].node : i \in {j \in 1..Len(stack) : stack[j].pc # "enter"}}

\* a sequence that has items, or a mapping that has entries
IsNonEmptyContainer(id) ==
    \/ Kind(id) \in {"list", "gen"} /\ ObjectAt(id).items # << >>
    \/ Kind(id) = "dict" /\ ObjectAt(id).entries # << >>

\* the object is entered a second time after it was left
C13_Reuse ==
    (Running /\ Top.pc = "enter" /\ ~IsMarked(Top.node)) => pc' # "ValueError"

C13_Markers ==
    /\ (prog = "iterencode" /\ pc = "running") =>
           /\ markers = OpenOnPath
           /\ \A m \in markers : IsNonEmptyContainer(m) \/ Kind(m) = "obj"
    /\ EncodeDone => markers = {}

\* C13: while iterencode runs, markers holds exactly the ids of the non-empty
\* containers and of the objects under reduction that are open on the path to
\* the running generator; an object that is not open is entered without the
\* circular-reference error, however often it occurs; markers is empty when
\* the call returns.
C13_MarkersAreOpenPath == [][C13_Reuse]_vars /\ []C13_Markers

\* the running generator has come to an object that is no scalar, sequence or
\* mapping and that is not open on the path
AtOpaque ==
    Running /\ Top.pc = "enter" /\ Kind(Top.node) = "obj" /\ ~IsMarked(Top.node)

\* no callback was given, or Exporter.export does not know the type of the object
Unrecognised(id) ==
    default = "none" \/ (default = "export" /\ ObjectAt(id).type \notin ExportableTypes)

C14_Step ==
    /\ AtOpaque =>
          /\ calls' = Append(calls, Top.node)
          /\ Unrecognised(Top.node) => (pc' = "TypeError" /\ out' = out)
    /\ (prog = "iterencode" /\ pc = "TypeError") => (out' = << >> /\ listify' # listify)

C14_Failed ==
    (prog = "iterencode" /\ pc = "TypeError") =>
        /\ Kind(Top.node) = "obj" /\ Unrecognised(Top.node)
        /\ calls # << >> /\ calls[Len(calls)] = Top.node

\* C14: an object that is no scalar, sequence or mapping is handed to default;
\* when no callback was given or Exporter.export does not know its type, the
\* call fails with TypeError at that object: the failing step yields nothing,
\* and no fragment is yielded after it (the only step left is a new call).
C14_UnencodableFails == [][C14_Step]_vars /\ []C14_Failed

\* [0, a tuple, 0] with Exporter.export as default: the error is raised after
\* "[", "0" and the separator
C14_Witness ==
    /\ prog = "iterencode" /\ pc = "TypeError" /\ default = "export"
    /\ root = 21 /\ Len(out) = 3

\* the steps that hand an object to default
C15_Step ==
    /\ AtOpaque =>
          /\ calls' = Append(calls, Top.node)
          /\ ~Unrecognised(Top.node) =>
                /\ Len(stack') = Len(stack) + 1
                /\ stack'[Len(stack')].node = DefaultOf(Top.node).value
                /\ stack'[Len(stack')].pc = "enter"
    /\ (prog = "iterencode" /\ pc = "running" /\ ~AtOpaque) =>
          (calls' = calls \/ calls' = << >>)
    /\ (Running /\ Top.pc = "enter" /\ Kind(Top.node) = "obj" /\ IsMarked(Top.node)) =>
          pc' = "ValueError"

C15_Identity ==
    (prog = "iterencode" /\ default = "identity" /\ calls # << >>) =>
        /\ Len(calls) = 1
        /\ pc \in {"running", "ValueError"}
        /\ pc = "ValueError" => (Top.node = calls[1] /\ Top.pc = "enter")

NextScalar ==
    IF ~Running THEN 0
    ELSE IF Top.fn = "enc" /\ Top.pc = "enter" /\ IsScalar(Top.node) THEN Top.node
    ELSE IF Top.fn = "iter" /\ Top.pc = "loop" /\ IterPos < Len(ObjectAt(Top.node).items)
            /\ IsScalar(ObjectAt(Top.node).items[IterPos + 1])
         THEN ObjectAt(Top.node).items[IterPos + 1]
    ELSE IF AtEntry /\ IsScalar(NextEntry.value) /\ ~Skipped(NextEntry.value)
            /\ ~KeyRefused(NextEntry)
         THEN NextEntry.value
    ELSE 0

\* the last fragment the step has yielded, without the item separator before it
LastYielded ==
    LET f == out'[Len(out')]
        n == Len(separators.item)
    IN IF Len(f) > n /\ SubSeq(f, 1, n) = separators.item /\ Top.fn = "iter"
       THEN SubSeq(f, n + 1, Len(f)) ELSE f

\* text is the plain decimal writing of the integer v
IsPlainDecimal(text, v) ==
    /\ IsJsonNumber(text)
    /\ PointOf(text) = 0
    /\ NatOf(Unsigned(text)) = Abs(v)
    /\ (text[1] = "-") <=> (v < 0)

C16_Step ==
    (NextScalar # 0) =>
        /\ Kind(NextScalar) = "bool" =>
               LastYielded = IF ObjectAt(NextScalar).val = 1 THEN <<"true">>
                             ELSE <<"false">>
        /\ Kind(NextScalar) = "int" =>
               IsPlainDecimal(LastYielded, ObjectAt(NextScalar).val)

\* C16: encode_float writes the value rounded to float_precision decimals with
\* the trailing zeros and then a trailing point stripped, and never a negative
\* zero: 1.0 at 3 is "1", 1.2345 at 2 is "1.23", 1.250 at 3 is "1.25" and
\* -0.00001 at 3 is "0"; an integer is written in plain decimal, unrounded,
\* and True and False are written as true and false, never as 1 and 0.
C16_ScalarText == [][C16_Step]_vars /\ []C16_FloatText

\* -0.00001 at precision 3 has been written as "0"
C16_Witness ==
    FloatDone /\ ef_f = Float(0 - 1) /\ float_precision = 3 /\ ef_text = <<"0">>

\* the text yielded so far
Text == Flatten(out)

RECURSIVE OpenBrackets(_, _)
\* the brackets and braces that are open after the first n tokens of a text,
\* the innermost last
OpenBrackets(text, n) ==
    IF n = 0 THEN << >>
    ELSE LET before == OpenBrackets(text, n - 1)
         IN IF text[n] \in {"[", "{"} THEN Append(before, text[n])
            ELSE IF text[n] \in {"]", "}"} /\ before # << >>
                 THEN SubSeq(before, 1, Len(before) - 1)
            ELSE before

\* the positions of the newlines of a text
Newlines(text) == {i \in 1..Len(text) : text[i] = "\n"}

\* C18 as stated: whatever the indent, the text between the "[" and the "]" of
\* a sequence holds no newline.
C18_NoNewlineInBrackets ==
    prog = "iterencode" =>
        \A i \in Newlines(Text) : "[" \notin Range(OpenBrackets(Text, i))

C18_Step ==
    (Running /\ \E f \in Range(Yielded) : "\n" \in Range(f)) =>
        (Top.fn = "dict" /\ ~indent.isNone)

C18_Innermost ==
    prog = "iterencode" =>
        \A i \in Newlines(Text) :
            LET open == OpenBrackets(Text, i)
            IN open # << >> /\ open[Len(open)] = "{"

\* C18 as amended: whatever the indent, a sequence yields no newline itself:
\* every newline is yielded by _iterencode_dict with indent set, and the
\* innermost container open at a newline is a mapping; a mapping that is an
\* item of a sequence still spreads its entries over lines, so the text
\* between "[" and "]" holds the newlines of the mappings nested in it.
C18_SequencesYieldNoNewline == [][C18_Step]_vars /\ []C18_Innermost

\* [{"n": 0.0, "e": []}, True, "x"] has been encoded with indent set
C18_Witness ==
    /\ EncodeDone /\ root = 23 /\ ~indent.isNone
    /\ \E i \in Newlines(Text) : "[" \in Range(OpenBrackets(Text, i))

\* the objects handed to iterencode inside the container built for the call
RootChildren ==
    IF root # 0 THEN << >>
    ELSE root_node.items \o [i \in 1..Len(root_node.entries) |-> root_node.entries[i].value]

\* no generator object occurs twice in the argument of iterencode
EachGeneratorOnce ==
    \A i, j \in 1..Len(RootChildren) :
        (i # j /\ RootChildren[i] = RootChildren[j]) => ObjectAt(RootChildren[i]).kind # "gen"

\* both calls have ended: the one on the generators, then the one on the lists
BothRunsEnded == prog = "iterencode" /\ listify /\ pc # "running"

\* C19: for every list of items and every setting of skip_empty, indent and
\* the separators, a generator that yields the items is encoded to the same
\* text as a list of the items, as the root, as an item of a sequence and as
\* the value of a mapping entry, also when there are no items.
C19_GeneratorAsList ==
    (BothRunsEnded /\ EachGeneratorOnce) => (run1.status = pc /\ run1.text = Text)

\* the pulls of the items of one sequence, in the order they were made
PullsOf(g) == LET FromG(p) == p.node = g IN SelectSeq(pulls, FromG)

\* the generators of the argument of iterencode
GeneratorsOfTree == {g \in Descendants({root}) : Kind(g) = "gen"}

\* the frames of the stack below the running one
Suspended(s) == SubSeq(s, 1, Len(s) - 1)

C20_Pulls ==
    (prog = "iterencode" /\ ~listify) =>
        /\ \A g \in GeneratorsOfTree :
              /\ \A k \in 1..Len(PullsOf(g)) : PullsOf(g)[k].index = k
              /\ Len(PullsOf(g)) = gen_pos[g]
              /\ EncodeDone => Len(PullsOf(g)) = Len(ObjectAt(g).items)
        /\ \A i, j \in 1..Len(pulls) :
              i < j => pulls[i].fragments < pulls[j].fragments

C20_Step ==
    Running =>
        /\ Len(out') >= Len(out) /\ SubSeq(out', 1, Len(out)) = out
        /\ Len(stack') >= Len(stack) - 1
        /\ Suspended(stack) = SubSeq(stack', 1, Len(stack) - 1)
        /\ pulls' # pulls =>
              /\ \E k \in 1..Len(ObjectAt(Top.node).items) :
                    pulls' = Append(pulls, [node |-> Top.node, index |-> k,
                                            fragments |-> Len(out)])
              /\ Len(out') = Len(out) + 1

\* C20: every item of a lazy sequence is pulled exactly once and in order; a
\* pull is followed at once by a fragment of the item, so the fragments of
\* item k are yielded before item k+1 is pulled; only the running generator
\* yields, always at the end of the output, while the generators of the
\* containers around it are suspended unchanged (depth-first pre-order); the
\* generators keep a position, never the items.
C20_SinglePass == [][C20_Step]_vars /\ []C20_Pulls

\* a generator of two items, one of them a generator of two items, is encoded
C20_Witness ==
    /\ EncodeDone /\ ~listify /\ root = 0 /\ root_node.kind = "gen"
    /\ Len(root_node.items) = 2 /\ Len(pulls) = 4

\* C28: every triangulated face contributes its three loops to index_array
\* exactly once, whatever its material_index, also one that is not below the
\* number of material slots: len(index_array) is 3 times the number of faces
\* (stated here for a mesh that has material slots; the mesh without slots is
\* the case of C7).
C28_EveryFaceIndexed ==
    (MeshDone /\ materials # << >>) =>
        /\ Len(index_array) = 3 * Len(faces)
        /\ Len(scanned) = 3 * Len(faces)

\* every corner processed so far: its (position, normal, uv, uv2) tuple and
\* the index it was given
SfCorners ==
    Flatten([k \in 1..Len(sf_history) |->
                [i \in 1..Len(sf_history[k].corners) |->
                    [data |-> sf_history[k].corners[i],
                     index |-> sf_history[k].indices[i]]]])

\* C23: two face vertices are given the same index only if their (position,
\* normal, uv, uv2) tuples are equal in every component; face vertices with
\* different tuples get different indices.
C23_SameIndexSameTuple ==
    \A a, b \in 1..Len(SfCorners) :
        SfCorners[a].index = SfCorners[b].index => SfCorners[a].data = SfCorners[b].data

\* the tokens that are white space between the tokens of the output
Whitespace == {" ", "\n", "\t"}

\* the first token after position n that is not white space ("" at the end)
NextToken(text, n) ==
    LET later == {j \in (n + 1)..Len(text) : text[j] \notin Whitespace}
    IN IF later = {} THEN ""
       ELSE text[CHOOSE j \in later : \A k \in later : j <= k]

\* the last token before position n that is not white space ("" at the start)
PrevToken(text, n) ==
    LET earlier == {j \in 1..(n - 1) : text[j] \notin Whitespace}
    IN IF earlier = {} THEN ""
       ELSE text[CHOOSE j \in earlier : \A k \in earlier : j >= k]

\* the positions of the output where the value of a mapping entry is an empty
\* mapping or an empty sequence
EmptyEntries(text) ==
    {n \in 1..Len(text) : /\ text[n] \in {"[", "{"}
                          /\ PrevToken(text, n) = ":"
                          /\ NextToken(text, n) \in {"]", "}"}}

\* C25: skip_empty pruning leaves nothing to prune: the output of a call with
\* skip_empty never contains a mapping entry whose value is an empty mapping
\* or an empty sequence, also when a nested mapping is empty only because all
\* of its own entries were pruned (stated here for the trees without a lazy
\* sequence).
C25_NothingLeftToPrune ==
    (EncodeDone /\ skip_empty /\ GeneratorsOfTree = {}) => EmptyEntries(Text) = {}

\* the first position from i on that holds no white space (past the end when
\* there is none)
SkipSpace(text, i) ==
    LET here == {j \in i..Len(text) : text[j] \notin Whitespace}
    IN IF here = {} THEN Len(text) + 1 ELSE CHOOSE j \in here : \A k \in here : j <= k

\* the tokens of a number
NumberChars == {"-", "."} \cup Range(DigitChars)

\* the first position from i on that holds no token of a number
NumberEnd(text, i) ==
    LET here == {j \in i..Len(text) : text[j] \notin NumberChars}
    IN IF here = {} THEN Len(text) + 1 ELSE CHOOSE j \in here : \A k \in here : j <= k

\* the position after the quoted string that starts at i, 0 when there is none
StringEnd(text, i) ==
    IF i + 2 <= Len(text) /\ text[i] = "\"" /\ text[i + 2] = "\"" THEN i + 3 ELSE 0

RECURSIVE ValueEnd(_, _), ItemsEnd(_, _, _), EntriesEnd(_, _, _)
\* the position after the JSON value that starts at i, 0 when the text from i
\* on does not start with a well formed value
ValueEnd(text, i) ==
    IF i > Len(text) THEN 0
    ELSE IF text[i] \in {"null", "true", "false"} THEN i + 1
    ELSE IF text[i] = "\"" THEN StringEnd(text, i)
    ELSE IF text[i] \in NumberChars THEN NumberEnd(text, i)
    ELSE IF text[i] = "[" THEN ItemsEnd(text, SkipSpace(text, i + 1), TRUE)
    ELSE IF text[i] = "{" THEN EntriesEnd(text, SkipSpace(text, i + 1), TRUE)
    ELSE 0

\* the position after the "]" of a sequence, from the place after its "[" or
\* after one of its items: "]" or, but for the first item, one "," and then
\* an item
ItemsEnd(text, i, first) ==
    IF i > Len(text) THEN 0
    ELSE IF text[i] = "]" THEN i + 1
    ELSE IF ~first /\ text[i] # "," THEN 0
    ELSE LET start == IF first THEN i ELSE SkipSpace(text, i + 1)
             end == ValueEnd(text, start)
         IN IF end = 0 THEN 0 ELSE ItemsEnd(text, SkipSpace(text, end), FALSE)

\* the position after the "}" of a mapping, from the place after its "{" or
\* after one of its entries: "}" or, but for the first entry, one "," and then
\* a quoted key, ":" and a value
EntriesEnd(text, i, first) ==
    IF i > Len(text) THEN 0
    ELSE IF text[i] = "}" THEN i + 1
    ELSE IF ~first /\ text[i] # "," THEN 0
    ELSE LET start == IF first THEN i ELSE SkipSpace(text, i + 1)
             colon == IF StringEnd(text, start) = 0 THEN 0
                      ELSE SkipSpace(text, StringEnd(text, start))
             end == IF colon = 0 \/ colon > Len(text) THEN 0
                    ELSE IF text[colon] # ":" THEN 0
                    ELSE ValueEnd(text, SkipSpace(text, colon + 1))
         IN IF end = 0 THEN 0 ELSE EntriesEnd(text, SkipSpace(text, end), FALSE)

\* the text is one well formed value: every bracket is closed by its match in
\* nesting order and one separator stands between two neighbours, none before
\* the first and none after the last
WellFormed(text) == ValueEnd(text, SkipSpace(text, 1)) = Len(text) + 1

\* C27: for every tree and every setting of skip_empty, skipkeys and indent
\* the text of a call that has returned is well formed: every "[" and "{" is
\* closed by its matching bracket in nesting order, and the item separator is
\* written exactly once between two entries that are written, never before the
\* first, never after the last and never for an entry that was skipped.
C27_WellFormed == EncodeDone => WellFormed(Text)

\* {True: [], False: 0, "b": {...}, (0, 1): None, "c": [0, None]} with
\* skip_empty, skipkeys and indent: the first and the fourth entry are passed
\* over and two separators are written between the three others
C27_Witness ==
    /\ EncodeDone /\ root = 30 /\ skip_empty /\ skipkeys /\ ~indent.isNone
    /\ KeysWritten = {"false", "b", "n", "c"}
    /\ Cardinality({n \in 1..Len(Text) : Text[n] = "," /\ OpenBrackets(Text, n) = <<"{">>}) = 2

(***************************************************************************)
(* Properties of ExportOperator.execute.                                   *)
(***************************************************************************)
\* every fragment of the generator was written to the file at tmp
AllWritten == chunk_pos = chunks.len /\ ~chunks.raises

\* the file at self.filepath is created or changed only by the step that
\* follows the last fragment
C21_Step ==
    (prog = "execute" /\ disk'[filepath] # disk[filepath]) => AllWritten

\* encoding has failed after some fragments were written
C21_Failed ==
    (prog = "execute" /\ pc = "raised" /\ chunks.raises /\ chunk_pos > 0 /\ ~console_only) =>
        /\ ~file_open
        /\ disk[filepath] = disk_entry[filepath]

\* C21: when encoding fails after some fragments were written, the sink file
\* is closed and the file at filepath is neither created nor modified: the
\* copy to filepath happens only after every fragment was written to the
\* temporary file.
C21_DestinationUntouched == [][C21_Step]_vars /\ []C21_Failed

(***************************************************************************)
(* Properties of Exporter.parse, export_scene and export_object.           *)
(***************************************************************************)
\* the values of a dict
DictValues(d) == {d[k].value : k \in 1..Len(d)}

\* no entry of the maps refers to an object outside the list of objects
MapsWithin(m, objects) ==
    LET obs == Range(objects)
    IN /\ DictKeys(m._ob_map) = obs
       /\ \A v \in DictValues(m._ob_map) : v.parent \in obs \cup {0}
       /\ DictKeys(m._geom_map) = obs
       /\ DictKeys(m._mat_map) = obs
       /\ DictKeys(m._tex_map) = {MaterialOf(o) : o \in obs} \ {"None"}
       /\ DictKeys(m._arm_map) \subseteq obs
       /\ DictKeys(m._bone_map) # {} => \E o \in obs : ObType(o) = "ARMATURE"
       /\ DictValues(m._act_map) \subseteq obs

\* a call of iterencode has yielded nothing yet
AtEncodeStart ==
    /\ prog = "iterencode" /\ pc = "running" /\ out = << >>
    /\ Len(stack) = 1 /\ Top.pc = "enter"

\* the steps that start an export
C22_Step ==
    /\ (prog = "export_mesh" /\ pc' = "start") => vertex_map' = << >>
    /\ (prog = "iterencode" /\ pc # "running" /\ pc' = "running") => markers' = {}

C22_Start ==
    /\ (prog = "export_mesh" /\ pc = "start") => vertex_map = << >>
    /\ (prog = "export_mesh" /\ vertex_map # << >>) => vertex_map[1].index = 0
    /\ AtEncodeStart => markers = {}
    /\ (prog = "exporter" /\ last_parse # "") =>
           MapsWithin(maps, exporters[last_parse].objects)

\* C22: after any sequence of earlier exports, failed ones included, every
\* export starts from empty build-scoped state: export_mesh begins with an
\* empty vertex_map (indices start at 0), iterencode begins with an empty set
\* of open containers, and parse empties its seven maps before it populates
\* them, so that after parse no entry of the maps refers to an object outside
\* the object list of the current export.
C22_FreshState == [][C22_Step]_vars /\ []C22_Start

\* the first parse has failed on two or more objects and another instance
\* has parsed a shorter list after it
C22_Witness ==
    /\ prog = "exporter" /\ pc = "ap_done"
    /\ exporters["A"].out = "raised" /\ Len(exporters["A"].objects) >= 2
    /\ last_parse = "B" /\ Len(exporters["B"].objects) = 1
    /\ Len(maps._ob_map) = 1

\* the number of children lists of the scene graph of instance i that hold
\* the object: the list of the scene and the lists of the exported objects
Occurrences(i, ob) ==
    (IF ob \in Range(SceneChildren(i)) THEN 1 ELSE 0)
    + Cardinality({a \in Range(exporters[i].objects) : ob \in Range(ObjectChildren(a))})

\* C26: each object yielded by traverse_visible_objects appears exactly once
\* in the scene graph of the output: once among the children of the scene or
\* once among the children of exactly one exported object, its nearest
\* exported ancestor, never in both (stated for the export of a whole scene,
\* right after its parse).
C26_OnceInSceneGraph ==
    (/\ prog = "exporter" /\ last_parse # ""
     /\ exporters[last_parse].out = "dict" /\ exporters[last_parse].is_scene) =>
        \A ob \in Range(exporters[last_parse].objects) : Occurrences(last_parse, ob) = 1

\* C29: two Exporter instances do not share state: a parse on one instance
\* leaves unchanged the maps the export method of another instance reads, so
\* the maps are, for every instance whose parse has returned its output, as
\* that parse left them until the instance parses again.
C29_InstancesApart ==
    prog = "exporter" =>
        \A i \in Instances : exporters[i].out = "dict" => maps = maps_at_parse[i]

\* the object types export_object supports, with the lamp and camera types
\* their exporters support
SupportedType(ob) == ob.type \in {"EMPTY", "MESH", "LAMP", "CAMERA", "ARMATURE"}

SupportedData(ob) ==
    /\ ob.type = "LAMP" => ob.data_type \in {"HEMI", "POINT", "SUN", "SPOT"}
    /\ ob.type = "CAMERA" => ob.data_type = "PERSP"

\* C24: export_object raises TypeError only for an object whose type is not
\* one of EMPTY, MESH, LAMP, CAMERA and ARMATURE; for an object of those five
\* types, with a supported lamp or camera type, called with its exporter, it
\* returns a dict that carries uuid, name and type.
C24_SupportedTypesReturn ==
    (prog = "export_object" /\ pc = "eo_done") =>
        /\ last_export.raises = "TypeError" => ~(SupportedType(eo_ob) /\ SupportedData(eo_ob))
        /\ (SupportedType(eo_ob) /\ SupportedData(eo_ob) /\ eo_exporter) =>
               last_export.raises = "" /\ last_export.type # ""

\* export() of the add-on has returned or raised
AxExited == prog = "addon_export" /\ pc \in {"ax_done", "ax_raised"}

\* C30: on every way out of export(), by return or by an exception raised
\* while the objects are exported or the file is written, the module-level
\* maps and the root object's children are empty, the selection is the one
\* recorded at entry and the scene is on the frame recorded at entry
C30_RestoredOnExit ==
    AxExited =>
        /\ \A g \in GlobalNames : globals[g] = {}
        /\ selected_objects = sel_obs
        /\ frame_current = sel_frame

\* an unsupported lamp raised after a mesh had filled the maps and its morph
\* animation had moved the scene to another frame
C30_Witness ==
    /\ AxExited
    /\ ax_raised = "NotImplementedError"
    /\ \A g \in GlobalNames \ {"_g_shared_geometries"} : ax_before.globals[g] # {}
    /\ ax_before.frame # sel_frame
    /\ sel_obs # {}

====
